---- MODULE Spec2Model ----
(***************************************************************************)
(* Refill: the amenity aggregation and scoring engine.                     *)
(*                                                                         *)
(*   src/src/utils/scoreCalculator.ts   calculateScore, calculateAverage-  *)
(*                                      Score                              *)
(*   src/src/utils/supabase.ts          submitRestaurantReport (a lookup   *)
(*                                      followed by one insert or update   *)
(*                                      of the row of table `places`)      *)
(*                                                                         *)
(* Numbers.  Every score is counted in tenths of a point (the survey       *)
(* slider moves in steps of 0.1), so 2.2 is 22 and the cap 10 is 100.  A   *)
(* stored score is a running mean and therefore a fraction: it is kept as  *)
(* an exact rational [num, den] of tenths in lowest terms.  The model does *)
(* real-number arithmetic; the rounding of IEEE doubles is not modelled.   *)
(*                                                                         *)
(* An answer true / false / null is the string "true" / "false" / "null". *)
(* A report is a record with the four answers and, when the caller gave    *)
(* one, the field baseScore (`baseScore?: number`).                        *)
(***************************************************************************)
EXTENDS Integers, Sequences, FiniteSets, TLC

VARIABLES
    store,      \* table `places`: key -> row, defined for the stored keys
    calls,      \* per caller: the submitRestaurantReport call it is in
    started,    \* number of submitRestaurantReport calls issued so far
    log,        \* history: per key, the reports whose write was accepted
    input,      \* calculator: the report handed to calculateScore
    output,     \* calculator: << >> before the call, <<score>> after it
    fetched,    \* the last call of a reader and what it returned
    hook,       \* one mounted instance of useApi
    screen      \* MapScreen: its React state and its handlers in progress

vars == <<store, calls, started, log, input, output, fetched, hook, screen>>

-----------------------------------------------------------------------------
(* Bounds of the model.                                                    *)

\* submitRestaurantReport calls issued in one behaviour
MaxCalls == 3

\* the calculator is tried on every baseScore from BaseSpan tenths below 0
\* to BaseSpan tenths above 10
BaseSpan == 25

\* the majority rule is tried on every tally with counters up to MaxTally
MaxTally == 5

\* getMultipleRestaurantAmenities is called with lists of up to MaxIds keys
MaxIds == 2

\* the merge is tried on place results of up to MaxResults restaurants
MaxResults == 6

\* the async handlers of the screen are called up to MaxHandlers times
MaxHandlers == 2

\* calculateAverageScore is tried on lists of up to MaxLen scores, with
\* weights from 0 to MaxWeight
MaxLen == 3

MaxWeight == 3

-----------------------------------------------------------------------------
(* Program constants, in tenths of a point.                                *)

DefaultBase == 50      \* amenities.baseScore || 5
RefillYes == 22        \* score += 2.2
RefillNo == 22         \* score -= 2.2
BreadYes == 10         \* score += 1
BreadNo == 30          \* score -= 3
PayYes == 15           \* score += 1.5
PayNo == 5             \* score -= 0.5
AttendantYes == 30     \* score -= 3
MaxScore == 100        \* Math.min(10, ...)
MinScore == 0          \* Math.max(0, ...)

Answers == {"true", "false", "null"}

Places == {"X", "Y"}

Procs == {1, 2}

-----------------------------------------------------------------------------
(* Numbers: exact rationals.                                               *)

Abs(n) == IF n < 0 THEN 0 - n ELSE n

RECURSIVE GCD(_, _)
GCD(a, b) == IF b = 0 THEN a ELSE GCD(b, a % b)

\* the number n/d (d > 0) in lowest terms
Rat(n, d) ==
    LET g == GCD(Abs(n), d)
    IN  [num |-> n \div g, den |-> d \div g]

RatLeq(a, b) == a.num * b.den <= b.num * a.den

\* Math.min(a, b)
RatMin(a, b) == IF RatLeq(a, b) THEN a ELSE b

-----------------------------------------------------------------------------
(* scoreCalculator.ts                                                      *)

HasBase(amenities) == "baseScore" \in DOMAIN amenities

RawScoreAttendantSign(amenities) ==
    LET base == IF HasBase(amenities) /\ amenities.baseScore # 0
                THEN amenities.baseScore ELSE DefaultBase
        refill == IF amenities.freeRefills = "true" THEN RefillYes
                  ELSE IF amenities.freeRefills = "false" THEN 0 - RefillNo
                  ELSE 0
        bread == IF amenities.breadBasket = "true" THEN BreadYes
                 ELSE IF amenities.breadBasket = "false" THEN 0 - BreadNo
                 ELSE 0
        pay == IF amenities.payAtTable = "true" THEN PayYes
               ELSE IF amenities.payAtTable = "false" THEN 0 - PayNo
               ELSE 0
        att == IF amenities.attendant = "true" THEN AttendantYes ELSE 0
    IN  base + refill + bread + pay + att

RawScoreBreadSwapped(amenities) ==
    LET base == IF HasBase(amenities) /\ amenities.baseScore # 0
                THEN amenities.baseScore ELSE DefaultBase
        refill == IF amenities.freeRefills = "true" THEN RefillYes
                  ELSE IF amenities.freeRefills = "false" THEN 0 - RefillNo
                  ELSE 0
        bread == IF amenities.breadBasket = "true" THEN BreadYes
                 ELSE IF amenities.breadBasket = "false" THEN 0 - BreadYes
                 ELSE 0
        pay == IF amenities.payAtTable = "true" THEN PayYes
               ELSE IF amenities.payAtTable = "false" THEN 0 - PayNo
               ELSE 0
        att == IF amenities.attendant = "true" THEN 0 - AttendantYes ELSE 0
    IN  base + refill + bread + pay + att

\* the local `score` of calculateScore right before the final clamp:
\* `amenities.baseScore || 5` takes the default for an absent baseScore and
\* for every falsy one, 0 included; then the four adjustments are added
RawScore(amenities) ==
    LET base == IF HasBase(amenities) /\ amenities.baseScore # 0
                THEN amenities.baseScore ELSE DefaultBase
        refill == IF amenities.freeRefills = "true" THEN RefillYes
                  ELSE IF amenities.freeRefills = "false" THEN 0 - RefillNo
                  ELSE 0
        bread == IF amenities.breadBasket = "true" THEN BreadYes
                 ELSE IF amenities.breadBasket = "false" THEN 0 - BreadNo
                 ELSE 0
        pay == IF amenities.payAtTable = "true" THEN PayYes
               ELSE IF amenities.payAtTable = "false" THEN 0 - PayNo
               ELSE 0
        att == IF amenities.attendant = "true" THEN 0 - AttendantYes ELSE 0
    IN  base + refill + bread + pay + att

Min(a, b) == IF a <= b THEN a ELSE b

Max(a, b) == IF a >= b THEN a ELSE b

calculateScoreNoFloor(amenities) == Min(MaxScore, RawScore(amenities))

\* Math.max(0, Math.min(10, score))
calculateScore(amenities) ==
    Max(MinScore, Min(MaxScore, RawScore(amenities)))

\* getScoreColor(score)
getScoreColor(score) ==
    IF RatLeq(Rat(80, 1), score) THEN "#10B981"
    ELSE IF RatLeq(Rat(60, 1), score) THEN "#F59E0B"
    ELSE IF RatLeq(Rat(40, 1), score) THEN "#F97316"
    ELSE "#EF4444"

getScoreLabelAbove(score) ==
    IF ~RatLeq(score, Rat(90, 1)) THEN "Excellent"
    ELSE IF ~RatLeq(score, Rat(70, 1)) THEN "Very Good"
    ELSE IF ~RatLeq(score, Rat(50, 1)) THEN "Good"
    ELSE IF ~RatLeq(score, Rat(30, 1)) THEN "Fair"
    ELSE "Poor"

\* getScoreLabel(score)
getScoreLabel(score) ==
    IF RatLeq(Rat(90, 1), score) THEN "Excellent"
    ELSE IF RatLeq(Rat(70, 1), score) THEN "Very Good"
    ELSE IF RatLeq(Rat(50, 1), score) THEN "Good"
    ELSE IF RatLeq(Rat(30, 1), score) THEN "Fair"
    ELSE "Poor"

RECURSIVE SumSeq(_)
SumSeq(s) == IF s = << >> THEN 0 ELSE Head(s) + SumSeq(Tail(s))

RECURSIVE SumProd(_, _)
SumProd(s, w) ==
    IF s = << >> THEN 0 ELSE Head(s) * Head(w) + SumProd(Tail(s), Tail(w))

\* calculateAverageScore(scores, weights?): `weights` is << >> when the
\* argument is omitted and <<w>> when the list w is passed.  A zero total
\* weight divides by zero; that result is written [num |-> 0, den |-> 0].
calculateAverageScore(scores, weights) ==
    IF Len(scores) = 0 THEN Rat(0, 1)
    ELSE IF weights # << >> /\ Len(weights[1]) = Len(scores)
         THEN LET weightedSum == SumProd(scores, weights[1])
                  totalWeight == SumSeq(weights[1])
              IN  IF totalWeight = 0 THEN [num |-> 0, den |-> 0]
                  ELSE IF totalWeight > 0 THEN Rat(weightedSum, totalWeight)
                  ELSE Rat(0 - weightedSum, 0 - totalWeight)
         ELSE Rat(SumSeq(scores), Len(scores))

-----------------------------------------------------------------------------
(* supabase.ts: rows of table `places`                                     *)

Total(tally) == tally.yes + tally.no + tally.idk

IncrementNullAsNo(tally, answer) ==
    [yes |-> tally.yes + (IF answer = "true" THEN 1 ELSE 0),
     no  |-> tally.no  + (IF answer # "true" THEN 1 ELSE 0),
     idk |-> tally.idk]

IncrementReplaces(tally, answer) ==
    [yes |-> IF answer = "true" THEN 1 ELSE 0,
     no  |-> IF answer = "false" THEN 1 ELSE 0,
     idk |-> IF answer = "null" THEN 1 ELSE 0]

\* { yes: t.yes + (a === true ? 1 : 0), no: ..., idk: ... }
Increment(tally, answer) ==
    [yes |-> tally.yes + (IF answer = "true" THEN 1 ELSE 0),
     no  |-> tally.no  + (IF answer = "false" THEN 1 ELSE 0),
     idk |-> tally.idk + (IF answer = "null" THEN 1 ELSE 0)]

ZeroTally == [yes |-> 0, no |-> 0, idk |-> 0]

WeightedAverageOfTwo(oldScore, oldReportCount, userScore) ==
    IF oldReportCount > 0
    THEN Rat(oldScore.num + userScore * oldScore.den, oldScore.den * 2)
    ELSE Rat(userScore, 1)

WeightedAverageOldCount(oldScore, oldReportCount, userScore) ==
    IF oldReportCount > 0
    THEN Rat(oldScore.num * oldReportCount + userScore * oldScore.den,
             oldScore.den * oldReportCount)
    ELSE Rat(userScore, 1)

\* (oldScore * oldReportCount + userScore) / (oldReportCount + 1)
WeightedAverage(oldScore, oldReportCount, userScore) ==
    IF oldReportCount > 0
    THEN Rat(oldScore.num * oldReportCount + userScore * oldScore.den,
             oldScore.den * (oldReportCount + 1))
    ELSE Rat(userScore, 1)

UpdatedRowPayIdkSlip(row, amenities) ==
    LET oldReportCount == Total(row.refill)
        oldScore == IF row.score.num = 0 THEN Rat(0, 1) ELSE row.score
        userScore == calculateScore(amenities)
    IN  [bread     |-> Increment(row.bread, amenities.breadBasket),
         refill    |-> Increment(row.refill, amenities.freeRefills),
         attendant |-> Increment(row.attendant, amenities.attendant),
         pay       |-> [Increment(row.pay, amenities.payAtTable) EXCEPT
                           !.idk = row.pay.idk
                               + (IF amenities.attendant = "null" THEN 1 ELSE 0)],
         score     |-> RatMin(Rat(MaxScore, 1),
                              WeightedAverage(oldScore, oldReportCount, userScore))]

\* the update path: updatedRow, built from the row that was read
UpdatedRow(row, amenities) ==
    LET oldReportCount == Total(row.refill)
        oldScore == IF row.score.num = 0 THEN Rat(0, 1) ELSE row.score
        userScore == calculateScore(amenities)
    IN  [bread     |-> Increment(row.bread, amenities.breadBasket),
         refill    |-> Increment(row.refill, amenities.freeRefills),
         attendant |-> Increment(row.attendant, amenities.attendant),
         pay       |-> Increment(row.pay, amenities.payAtTable),
         score     |-> RatMin(Rat(MaxScore, 1),
                              WeightedAverage(oldScore, oldReportCount, userScore))]

NewRowBreadFromRefill(placeId, amenities) ==
    [key       |-> placeId,
     bread     |-> Increment(ZeroTally, amenities.freeRefills),
     refill    |-> Increment(ZeroTally, amenities.freeRefills),
     attendant |-> Increment(ZeroTally, amenities.attendant),
     pay       |-> Increment(ZeroTally, amenities.payAtTable),
     score     |-> RatMin(Rat(MaxScore, 1), Rat(calculateScore(amenities), 1))]

NewRowNullNotCounted(placeId, amenities) ==
    [key       |-> placeId,
     bread     |-> [Increment(ZeroTally, amenities.breadBasket) EXCEPT !.idk = 0],
     refill    |-> [Increment(ZeroTally, amenities.freeRefills) EXCEPT !.idk = 0],
     attendant |-> [Increment(ZeroTally, amenities.attendant) EXCEPT !.idk = 0],
     pay       |-> [Increment(ZeroTally, amenities.payAtTable) EXCEPT !.idk = 0],
     score     |-> RatMin(Rat(MaxScore, 1), Rat(calculateScore(amenities), 1))]

\* the create path: newRow
NewRow(placeId, amenities) ==
    [key       |-> placeId,
     bread     |-> Increment(ZeroTally, amenities.breadBasket),
     refill    |-> Increment(ZeroTally, amenities.freeRefills),
     attendant |-> Increment(ZeroTally, amenities.attendant),
     pay       |-> Increment(ZeroTally, amenities.payAtTable),
     score     |-> RatMin(Rat(MaxScore, 1), Rat(calculateScore(amenities), 1))]

UpdateTableRestamps(table, placeId, updatedRow) ==
    [k \in DOMAIN table |->
        IF table[k].key = placeId
        THEN [table[k] EXCEPT !.bread = updatedRow.bread,
                              !.refill = updatedRow.refill,
                              !.attendant = updatedRow.attendant,
                              !.pay = updatedRow.pay,
                              !.score = updatedRow.score,
                              !.created_at = @ + 1]
        ELSE table[k]]

\* supabase.from('places').update(updatedRow).eq('key', placeId): the
\* columns named in updatedRow are replaced in every row with that key
UpdateTable(table, placeId, updatedRow) ==
    [k \in DOMAIN table |->
        IF table[k].key = placeId
        THEN [table[k] EXCEPT !.bread = updatedRow.bread,
                              !.refill = updatedRow.refill,
                              !.attendant = updatedRow.attendant,
                              !.pay = updatedRow.pay,
                              !.score = updatedRow.score]
        ELSE table[k]]

\* supabase.from('places').insert(newRow): newRow has no created_at, the
\* table fills that column with the time `now` of the insert
InsertTable(table, newRow, now) ==
    [k \in DOMAIN table \cup {newRow.key} |->
        IF k = newRow.key
        THEN [key        |-> newRow.key,
              created_at |-> now,
              bread      |-> newRow.bread,
              refill     |-> newRow.refill,
              attendant  |-> newRow.attendant,
              pay        |-> newRow.pay,
              score      |-> newRow.score]
        ELSE table[k]]

-----------------------------------------------------------------------------
(* supabase.ts: what the two readers derive from a row                     *)

StatsOpinionsOnly(tally) ==
    [yes |-> tally.yes, no |-> tally.no, total |-> tally.yes + tally.no]

\* { yes, no, total: yes + no + idk }
Stats(tally) ==
    [yes |-> tally.yes, no |-> tally.no,
     total |-> tally.yes + tally.no + tally.idk]

AmenitiesOfRowTieIsYes(row) ==
    [freeRefills |-> IF row.refill.yes > row.refill.no THEN "true"
                     ELSE IF row.refill.no > row.refill.yes THEN "false"
                     ELSE "null",
     breadBasket |-> IF row.bread.yes > row.bread.no THEN "true"
                     ELSE IF row.bread.no > row.bread.yes THEN "false"
                     ELSE "null",
     payAtTable  |-> IF row.pay.yes > row.pay.no THEN "true"
                     ELSE IF row.pay.no > row.pay.yes THEN "false"
                     ELSE "null",
     attendant   |-> IF row.attendant.yes >= row.attendant.no THEN "true"
                     ELSE IF row.attendant.no > row.attendant.yes THEN "false"
                     ELSE "null",
     verifiedAt        |-> row.created_at,
     freeRefillsStats  |-> Stats(row.refill),
     breadBasketStats  |-> Stats(row.bread),
     payAtTableStats   |-> Stats(row.pay),
     attendantStats    |-> Stats(row.attendant)]

\* getRestaurantAmenities: the bundle returned for the row that was read
AmenitiesOfRow(row) ==
    [freeRefills |-> IF row.refill.yes > row.refill.no THEN "true"
                     ELSE IF row.refill.no > row.refill.yes THEN "false"
                     ELSE "null",
     breadBasket |-> IF row.bread.yes > row.bread.no THEN "true"
                     ELSE IF row.bread.no > row.bread.yes THEN "false"
                     ELSE "null",
     payAtTable  |-> IF row.pay.yes > row.pay.no THEN "true"
                     ELSE IF row.pay.no > row.pay.yes THEN "false"
                     ELSE "null",
     attendant   |-> IF row.attendant.yes > row.attendant.no THEN "true"
                     ELSE IF row.attendant.no > row.attendant.yes THEN "false"
                     ELSE "null",
     verifiedAt        |-> row.created_at,
     freeRefillsStats  |-> Stats(row.refill),
     breadBasketStats  |-> Stats(row.bread),
     payAtTableStats   |-> Stats(row.pay),
     attendantStats    |-> Stats(row.attendant)]

\* getMultipleRestaurantAmenities: the entry set in dataMap for one row r
\* of the answer, { score: r.score || 0, amenities: {...} }
RestaurantDataOfRow(r) ==
    [score |-> IF r.score.num = 0 THEN Rat(0, 1) ELSE r.score,
     amenities |->
        [freeRefills |-> IF r.refill.yes > r.refill.no THEN "true"
                         ELSE IF r.refill.no > r.refill.yes THEN "false"
                         ELSE "null",
         breadBasket |-> IF r.bread.yes > r.bread.no THEN "true"
                         ELSE IF r.bread.no > r.bread.yes THEN "false"
                         ELSE "null",
         payAtTable  |-> IF r.pay.yes > r.pay.no THEN "true"
                         ELSE IF r.pay.no > r.pay.yes THEN "false"
                         ELSE "null",
         attendant   |-> IF r.attendant.yes > r.attendant.no THEN "true"
                         ELSE IF r.attendant.no > r.attendant.yes THEN "false"
                         ELSE "null",
         verifiedAt        |-> r.created_at,
         freeRefillsStats  |-> Stats(r.refill),
         breadBasketStats  |-> Stats(r.bread),
         payAtTableStats   |-> Stats(r.pay),
         attendantStats    |-> Stats(r.attendant)]]

-----------------------------------------------------------------------------
(* Inputs.                                                                 *)

Report(refills, bread, pay, att) ==
    [freeRefills |-> refills, breadBasket |-> bread,
     payAtTable |-> pay, attendant |-> att]

ReportWithBase(refills, bread, pay, att, base) ==
    [freeRefills |-> refills, breadBasket |-> bread,
     payAtTable |-> pay, attendant |-> att, baseScore |-> base]

BaseScores == (0 - BaseSpan) .. (MaxScore + BaseSpan)

\* every report the calculator is tried on
AllReports ==
    { Report(r, b, p, a) : r \in Answers, b \in Answers,
                           p \in Answers, a \in Answers }
    \cup
    { ReportWithBase(m[1], m[2], m[3], m[4], m[5]) :
        m \in Answers \X Answers \X Answers \X Answers \X BaseScores }

\* the reports submitted to the store: each amenity is answered true, false
\* and null by some report; the scores are 10 (raw 13.7, capped), 4.3,
\* 5 (no baseScore), 0 (raw -3.7, floored; baseScore 0) and 3.5
SubmittedReports ==
    { ReportWithBase("true", "true", "true", "false", 90),
      ReportWithBase("false", "null", "true", "false", 50),
      Report("null", "null", "null", "null"),
      ReportWithBase("false", "false", "false", "true", 0),
      ReportWithBase("true", "false", "null", "true", 73) }

-----------------------------------------------------------------------------
(* submitRestaurantReport(placeId, amenities), one step per round trip.    *)
(*   pc "select": the lookup has been sent                                 *)
(*   pc "update" / "insert": the row was computed and the write was sent   *)
(*   pc "done": the call returned `ret`                                    *)
(* `sent` lists the requests the call has sent to the store, `fetchError`  *)
(* is the error code of the lookup's answer ("null" for none, "other" for  *)
(* every code but PGRST116).                                               *)

Idle == [pc |-> "idle"]

InFlight(c) == calls[c].pc \in {"select", "update", "insert"}

\* the caller c enters submitRestaurantReport and sends the lookup
Submit(c, placeId, amenities) ==
    /\ calls[c].pc \in {"idle", "done"}
    /\ started < MaxCalls
    /\ calls' = [calls EXCEPT ![c] =
                    [pc |-> "select", placeId |-> placeId,
                     amenities |-> amenities,
                     sent |-> <<"select">>]]
    /\ started' = started + 1
    /\ UNCHANGED <<store, log, input, output, fetched, hook, screen>>

\* the lookup answers with the row: `existing` is set, updatedRow is
\* computed from it and the update is sent
LookupFound(c) ==
    /\ calls[c].pc = "select"
    /\ calls[c].placeId \in DOMAIN store
    /\ LET existing == store[calls[c].placeId]
       IN  calls' = [calls EXCEPT ![c] =
                        [pc |-> "update", placeId |-> calls[c].placeId,
                         amenities |-> calls[c].amenities,
                         sent |-> Append(calls[c].sent, "update"),
                         fetchError |-> "null",
                         existing |-> existing,
                         row |-> UpdatedRow(existing, calls[c].amenities)]]
    /\ UNCHANGED <<store, started, log, input, output, fetched, hook, screen>>

\* the lookup answers PGRST116 (no row): newRow is computed and the insert
\* is sent
LookupNotFound(c) ==
    /\ calls[c].pc = "select"
    /\ calls[c].placeId \notin DOMAIN store
    /\ calls' = [calls EXCEPT ![c] =
                    [pc |-> "insert", placeId |-> calls[c].placeId,
                     amenities |-> calls[c].amenities,
                     sent |-> Append(calls[c].sent, "insert"),
                     fetchError |-> "PGRST116",
                     row |-> NewRow(calls[c].placeId, calls[c].amenities)]]
    /\ UNCHANGED <<store, started, log, input, output, fetched, hook, screen>>

LookupErrorFallsThrough(c) ==
    /\ calls[c].pc = "select"
    /\ calls' = [calls EXCEPT ![c] =
                    [pc |-> "insert", placeId |-> calls[c].placeId,
                     amenities |-> calls[c].amenities,
                     sent |-> Append(calls[c].sent, "insert"),
                     fetchError |-> "other",
                     row |-> NewRow(calls[c].placeId, calls[c].amenities)]]
    /\ UNCHANGED <<store, started, log, input, output, fetched, hook, screen>>

\* the lookup answers with another error: throw fetchError, caught, false
LookupError(c) ==
    /\ calls[c].pc = "select"
    /\ calls' = [calls EXCEPT ![c] =
                    [pc |-> "done", placeId |-> calls[c].placeId,
                     amenities |-> calls[c].amenities,
                     sent |-> calls[c].sent,
                     fetchError |-> "other",
                     ret |-> FALSE]]
    /\ UNCHANGED <<store, started, log, input, output, fetched, hook, screen>>

UpdateOkOnCurrentRow(c) ==
    /\ calls[c].pc = "update"
    /\ store' = UpdateTable(store, calls[c].placeId,
                            UpdatedRow(store[calls[c].placeId],
                                       calls[c].amenities))
    /\ log' = [log EXCEPT ![calls[c].placeId] = Append(@, calls[c].amenities)]
    /\ calls' = [calls EXCEPT ![c] =
                    [pc |-> "done", placeId |-> calls[c].placeId,
                     amenities |-> calls[c].amenities,
                     sent |-> calls[c].sent,
                     fetchError |-> calls[c].fetchError,
                     existing |-> calls[c].existing,
                     row |-> calls[c].row, ret |-> TRUE]]
    /\ UNCHANGED <<started, input, output, fetched, hook, screen>>

\* the update is accepted: return true
UpdateOk(c) ==
    /\ calls[c].pc = "update"
    /\ store' = UpdateTable(store, calls[c].placeId, calls[c].row)
    /\ log' = [log EXCEPT ![calls[c].placeId] = Append(@, calls[c].amenities)]
    /\ calls' = [calls EXCEPT ![c] =
                    [pc |-> "done", placeId |-> calls[c].placeId,
                     amenities |-> calls[c].amenities,
                     sent |-> calls[c].sent,
                     fetchError |-> calls[c].fetchError,
                     existing |-> calls[c].existing,
                     row |-> calls[c].row, ret |-> TRUE]]
    /\ UNCHANGED <<started, input, output, fetched, hook, screen>>

UpdateErrorAfterWrite(c) ==
    /\ calls[c].pc = "update"
    /\ store' = UpdateTable(store, calls[c].placeId, calls[c].row)
    /\ calls' = [calls EXCEPT ![c] =
                    [pc |-> "done", placeId |-> calls[c].placeId,
                     amenities |-> calls[c].amenities,
                     sent |-> calls[c].sent,
                     fetchError |-> calls[c].fetchError,
                     existing |-> calls[c].existing,
                     row |-> calls[c].row, ret |-> FALSE]]
    /\ UNCHANGED <<started, log, input, output, fetched, hook, screen>>

\* the update is refused: throw updateError, caught, false
UpdateError(c) ==
    /\ calls[c].pc = "update"
    /\ calls' = [calls EXCEPT ![c] =
                    [pc |-> "done", placeId |-> calls[c].placeId,
                     amenities |-> calls[c].amenities,
                     sent |-> calls[c].sent,
                     fetchError |-> calls[c].fetchError,
                     existing |-> calls[c].existing,
                     row |-> calls[c].row, ret |-> FALSE]]
    /\ UNCHANGED <<store, started, log, input, output, fetched, hook, screen>>

InsertOkReplaces(c) ==
    /\ calls[c].pc = "insert"
    /\ store' = InsertTable(store, calls[c].row, started)
    /\ log' = [log EXCEPT ![calls[c].placeId] = Append(@, calls[c].amenities)]
    /\ calls' = [calls EXCEPT ![c] =
                    [pc |-> "done", placeId |-> calls[c].placeId,
                     amenities |-> calls[c].amenities,
                     sent |-> calls[c].sent,
                     fetchError |-> calls[c].fetchError,
                     row |-> calls[c].row, ret |-> TRUE]]
    /\ UNCHANGED <<started, input, output, fetched, hook, screen>>

\* the insert is accepted (`key` is the primary key: no row has it yet);
\* the time of the insert is the number of calls issued so far
InsertOk(c) ==
    /\ calls[c].pc = "insert"
    /\ calls[c].row.key \notin DOMAIN store
    /\ store' = InsertTable(store, calls[c].row, started)
    /\ log' = [log EXCEPT ![calls[c].placeId] = Append(@, calls[c].amenities)]
    /\ calls' = [calls EXCEPT ![c] =
                    [pc |-> "done", placeId |-> calls[c].placeId,
                     amenities |-> calls[c].amenities,
                     sent |-> calls[c].sent,
                     fetchError |-> calls[c].fetchError,
                     row |-> calls[c].row, ret |-> TRUE]]
    /\ UNCHANGED <<started, input, output, fetched, hook, screen>>

InsertErrorRetries(c) ==
    /\ calls[c].pc = "insert"
    /\ calls' = [calls EXCEPT ![c] =
                    [pc |-> "select", placeId |-> calls[c].placeId,
                     amenities |-> calls[c].amenities,
                     sent |-> <<"select">>]]
    /\ UNCHANGED <<store, started, log, input, output, fetched, hook, screen>>

\* the insert is refused (the store is unavailable, or a row with this key
\* exists by now): throw insertError, caught, false
InsertError(c) ==
    /\ calls[c].pc = "insert"
    /\ calls' = [calls EXCEPT ![c] =
                    [pc |-> "done", placeId |-> calls[c].placeId,
                     amenities |-> calls[c].amenities,
                     sent |-> calls[c].sent,
                     fetchError |-> calls[c].fetchError,
                     row |-> calls[c].row, ret |-> FALSE]]
    /\ UNCHANGED <<store, started, log, input, output, fetched, hook, screen>>

-----------------------------------------------------------------------------
(* The readers.  A call sends its select and awaits the answer; the store  *)
(* answers from the table as it is at that moment; the function resumes    *)
(* later with that answer and returns.  Between any two of these steps the *)
(* callers that submit may step, so the value a reader returns, and holds  *)
(* while it uses it, may be older than the table.  `fetched.data` is what  *)
(* the store answered with, `fetched.ret` what the function returned.      *)

NotFetched == [op |-> "none", pc |-> "idle"]

\* the reader is done with the value returned and may call again
Discard ==
    /\ fetched.pc = "done"
    /\ fetched' = NotFetched
    /\ UNCHANGED <<store, calls, started, log, input, output, hook, screen>>

\* what a reader awaits after its select was sent
Selecting(op, arg) == [op |-> op, arg |-> arg, pc |-> "select"]

\* what a reader resumes with once the store has answered
Answered(answer, data) ==
    [op |-> fetched.op, arg |-> fetched.arg, pc |-> "answered",
     answer |-> answer, data |-> data]

\* what a reader holds after it returned ret
Returned(ret) ==
    [op |-> fetched.op, arg |-> fetched.arg, pc |-> "done",
     answer |-> fetched.answer, data |-> fetched.data, ret |-> ret]

\* getRestaurantAmenities(placeId) is called: the select is sent
GetAmenitiesCall(placeId) ==
    /\ fetched = NotFetched
    /\ fetched' = Selecting("getRestaurantAmenities", placeId)
    /\ UNCHANGED <<store, calls, started, log, input, output, hook, screen>>

\* .eq('key', placeId).single() answers with the row
GetAmenitiesFound ==
    /\ fetched.pc = "select"
    /\ fetched.op = "getRestaurantAmenities"
    /\ fetched.arg \in DOMAIN store
    /\ fetched' = Answered("data", <<store[fetched.arg]>>)
    /\ UNCHANGED <<store, calls, started, log, input, output, hook, screen>>

GetAmenitiesNotFoundCreates ==
    /\ fetched.pc = "select"
    /\ fetched.op = "getRestaurantAmenities"
    /\ fetched.arg \notin DOMAIN store
    /\ fetched' = Answered("PGRST116", << >>)
    /\ store' = InsertTable(store, [key |-> fetched.arg, bread |-> ZeroTally,
                                    refill |-> ZeroTally,
                                    attendant |-> ZeroTally,
                                    pay |-> ZeroTally, score |-> Rat(0, 1)],
                            started)
    /\ UNCHANGED <<calls, started, log, input, output, hook, screen>>

\* .single() answers PGRST116: no row has the key
GetAmenitiesNotFound ==
    /\ fetched.pc = "select"
    /\ fetched.op = "getRestaurantAmenities"
    /\ fetched.arg \notin DOMAIN store
    /\ fetched' = Answered("PGRST116", << >>)
    /\ UNCHANGED <<store, calls, started, log, input, output, hook, screen>>

\* the select answers with another error
GetAmenitiesError ==
    /\ fetched.pc = "select"
    /\ fetched.op = "getRestaurantAmenities"
    /\ fetched' = Answered("error", << >>)
    /\ UNCHANGED <<store, calls, started, log, input, output, hook, screen>>

GetAmenitiesReturnDefaults ==
    /\ fetched.pc = "answered"
    /\ fetched.op = "getRestaurantAmenities"
    /\ fetched' = Returned(
          IF fetched.answer = "data"
          THEN <<AmenitiesOfRow(fetched.data[1])>>
          ELSE <<AmenitiesOfRow([key |-> fetched.arg, bread |-> ZeroTally,
                                 refill |-> ZeroTally,
                                 attendant |-> ZeroTally,
                                 pay |-> ZeroTally, score |-> Rat(0, 1),
                                 created_at |-> 0])>>)
    /\ UNCHANGED <<store, calls, started, log, input, output, hook, screen>>

\* getRestaurantAmenities resumes: PGRST116 returns null, another error is
\* thrown, caught and returns null, a row returns its bundle
GetAmenitiesReturn ==
    /\ fetched.pc = "answered"
    /\ fetched.op = "getRestaurantAmenities"
    /\ fetched' = Returned(IF fetched.answer = "data"
                           THEN <<AmenitiesOfRow(fetched.data[1])>>
                           ELSE << >>)
    /\ UNCHANGED <<store, calls, started, log, input, output, hook, screen>>

SelectEveryRow(table, placeIds) == { table[k] : k \in DOMAIN table }

\* .select('*').in('key', placeIds): the rows whose key is in the list
SelectIn(table, placeIds) ==
    { table[k] : k \in { j \in DOMAIN table :
                           \E i \in 1..Len(placeIds) : table[j].key = placeIds[i] } }

\* dataMap after data.forEach(row => dataMap.set(r.key, {...}))
DataMap(data) ==
    [k \in { r.key : r \in data } |->
        RestaurantDataOfRow(CHOOSE r \in data : r.key = k)]

\* getMultipleRestaurantAmenities(placeIds) is called: the select is sent
GetMultipleCall(placeIds) ==
    /\ fetched = NotFetched
    /\ fetched' = Selecting("getMultipleRestaurantAmenities", placeIds)
    /\ UNCHANGED <<store, calls, started, log, input, output, hook, screen>>

\* .in('key', placeIds) answers with rows
GetMultipleOk ==
    /\ fetched.pc = "select"
    /\ fetched.op = "getMultipleRestaurantAmenities"
    /\ fetched' = Answered("data", SelectIn(store, fetched.arg))
    /\ UNCHANGED <<store, calls, started, log, input, output, hook, screen>>

\* the select answers with an error
GetMultipleError ==
    /\ fetched.pc = "select"
    /\ fetched.op = "getMultipleRestaurantAmenities"
    /\ fetched' = Answered("error", {})
    /\ UNCHANGED <<store, calls, started, log, input, output, hook, screen>>

\* getMultipleRestaurantAmenities resumes: an error is thrown, caught and
\* returns new Map(), rows return dataMap
GetMultipleReturn ==
    /\ fetched.pc = "answered"
    /\ fetched.op = "getMultipleRestaurantAmenities"
    /\ fetched' = Returned(IF fetched.answer = "data"
                           THEN DataMap(fetched.data)
                           ELSE DataMap({}))
    /\ UNCHANGED <<store, calls, started, log, input, output, hook, screen>>

-----------------------------------------------------------------------------
(* calculateScore applied to one report.                                   *)

Calculate ==
    /\ output = << >>
    /\ output' = <<calculateScore(input)>>
    /\ UNCHANGED <<store, calls, started, log, input, fetched, hook, screen>>

-----------------------------------------------------------------------------
(* useApi(apiFunction, options): one instance of the hook.  The value that *)
(* the call numbered id of apiFunction resolves or rejects with is written *)
(* id; an absent value (null) is << >>.  `pending` holds the calls of      *)
(* execute that await apiFunction, `callbacks` lists the calls made to     *)
(* onSuccess and onError.                                                  *)

AsyncState(status, data, error) ==
    [status |-> status, data |-> data, error |-> error]

\* useState({status: 'idle', data: initialData, error: null}),
\* mountedRef = true, executionIdRef = 0
HookInit ==
    [state       |-> AsyncState("idle", << >>, << >>),
     mounted     |-> TRUE,
     executionId |-> 0,
     pending     |-> {},
     callbacks   |-> << >>]

\* execute(...args) up to its await: the id is taken, the state is loading
Execute ==
    /\ hook.executionId < MaxCalls
    /\ hook' = [hook EXCEPT
                   !.executionId = @ + 1,
                   !.state = AsyncState("loading", << >>, << >>),
                   !.pending = @ \cup {hook.executionId + 1}]
    /\ UNCHANGED <<store, calls, started, log, input, output, fetched, screen>>

ResolveIgnoresNewer(id, onSuccessThrows) ==
    /\ id \in hook.pending
    /\ hook' = IF ~hook.mounted
               THEN [hook EXCEPT !.pending = @ \ {id}]
               ELSE IF onSuccessThrows
               THEN [hook EXCEPT
                        !.pending = @ \ {id},
                        !.state = AsyncState("error", << >>, <<id>>),
                        !.callbacks = @ \o << <<"onSuccess", id>>,
                                              <<"onError", id>> >>]
               ELSE [hook EXCEPT
                        !.pending = @ \ {id},
                        !.state = AsyncState("success", <<id>>, << >>),
                        !.callbacks = Append(@, <<"onSuccess", id>>)]
    /\ UNCHANGED <<store, calls, started, log, input, output, fetched, screen>>

\* apiFunction resolves for the call id: return when unmounted or when a
\* newer call exists; else set success and call onSuccess.  An onSuccess
\* that throws lands in the catch block, which passes the same test, sets
\* error and calls onError.
Resolve(id, onSuccessThrows) ==
    /\ id \in hook.pending
    /\ hook' = IF ~hook.mounted \/ id # hook.executionId
               THEN [hook EXCEPT !.pending = @ \ {id}]
               ELSE IF onSuccessThrows
               THEN [hook EXCEPT
                        !.pending = @ \ {id},
                        !.state = AsyncState("error", << >>, <<id>>),
                        !.callbacks = @ \o << <<"onSuccess", id>>,
                                              <<"onError", id>> >>]
               ELSE [hook EXCEPT
                        !.pending = @ \ {id},
                        !.state = AsyncState("success", <<id>>, << >>),
                        !.callbacks = Append(@, <<"onSuccess", id>>)]
    /\ UNCHANGED <<store, calls, started, log, input, output, fetched, screen>>

\* apiFunction rejects for the call id: return when unmounted or when a
\* newer call exists; else set error and call onError
Reject(id) ==
    /\ id \in hook.pending
    /\ hook' = IF ~hook.mounted \/ id # hook.executionId
               THEN [hook EXCEPT !.pending = @ \ {id}]
               ELSE [hook EXCEPT
                        !.pending = @ \ {id},
                        !.state = AsyncState("error", << >>, <<id>>),
                        !.callbacks = Append(@, <<"onError", id>>)]
    /\ UNCHANGED <<store, calls, started, log, input, output, fetched, screen>>

\* reset(): back to idle with initialData
Reset ==
    /\ hook.state # AsyncState("idle", << >>, << >>)
    /\ hook' = [hook EXCEPT !.state = AsyncState("idle", << >>, << >>)]
    /\ UNCHANGED <<store, calls, started, log, input, output, fetched, screen>>

\* the cleanup of the effect: mountedRef.current = false
Unmount ==
    /\ hook.mounted
    /\ hook' = [hook EXCEPT !.mounted = FALSE]
    /\ UNCHANGED <<store, calls, started, log, input, output, fetched, screen>>

-----------------------------------------------------------------------------
(* MapScreen: the merge of place results with the aggregation map, and the *)
(* async handlers that set the restaurants displayed and the suggestions:  *)
(* handleReport, handleSearchInput, handleSelectSuggestion and             *)
(* loadNearbyRestaurants.  Each call of a handler is a task that steps     *)
(* from await to await; the calls are independent, so the steps of one lie *)
(* between the steps of another.  A restaurant is kept with the fields the *)
(* merge and the report touch: id, placeId, amenities and, once merged,    *)
(* score (<< >> is undefined).                                             *)

\* mapGooglePlaceToRestaurant(place, ...): id and placeId are place_id, the
\* four statuses are null
mapGooglePlaceToRestaurant(place_id) ==
    [id |-> place_id,
     placeId |-> place_id,
     amenities |-> [freeRefills |-> "null", breadBasket |-> "null",
                    payAtTable |-> "null", attendant |-> "null"]]

\* data.results.map(place => mapGooglePlaceToRestaurant(place, ...))
PlaceResults(place_ids) ==
    [i \in 1..Len(place_ids) |-> mapGooglePlaceToRestaurant(place_ids[i])]

MergeSkipsMisses(results, dataMap) ==
    LET hits == { i \in 1..Len(results) : results[i].placeId \in DOMAIN dataMap }
        Rank(i) == Cardinality({ j \in hits : j <= i })
    IN  [n \in 1..Cardinality(hits) |->
            LET i == CHOOSE j \in hits : Rank(j) = n
            IN  [id |-> results[i].id,
                 placeId |-> results[i].placeId,
                 amenities |-> dataMap[results[i].placeId].amenities,
                 score |-> <<dataMap[results[i].placeId].score>>]]

\* results.map(restaurant => ({...restaurant,
\*     amenities: data?.amenities || restaurant.amenities,
\*     score: data?.score}))  with data = dataMap.get(restaurant.placeId)
Merge(results, dataMap) ==
    [i \in 1..Len(results) |->
        LET restaurant == results[i]
        IN  IF restaurant.placeId \in DOMAIN dataMap
            THEN [id |-> restaurant.id,
                  placeId |-> restaurant.placeId,
                  amenities |-> dataMap[restaurant.placeId].amenities,
                  score |-> <<dataMap[restaurant.placeId].score>>]
            ELSE [id |-> restaurant.id,
                  placeId |-> restaurant.placeId,
                  amenities |-> restaurant.amenities,
                  score |-> << >>]]

\* resultsWithAmenities.slice(0, 5)
Slice5(list) == SubSeq(list, 1, Min(5, Len(list)))

\* a handler of the screen that is not in progress
IdleTask == [kind |-> "none", pc |-> "idle"]

\* the screen before any place was loaded.  `tasks` holds the calls of the
\* async handlers that are in progress, each at its await; `handlers`
\* counts the calls made to them, `alerts` the calls of Alert.alert and
\* `refreshes` the reads that handleReport has issued
ScreenInit ==
    [tasks              |-> [c \in Procs |-> IdleTask],
     restaurants        |-> << >>,
     searchSuggestions  |-> << >>,
     selectedRestaurant |-> << >>,
     showSuccessModal   |-> FALSE,
     handlers           |-> 0,
     alerts             |-> 0,
     refreshes          |-> 0]

\* the screen after loadNearbyRestaurants found both places and no row
ScreenLoaded ==
    [ScreenInit EXCEPT
        !.restaurants = Merge(PlaceResults(<<"X", "Y">>), DataMap({}))]

\* handleMarkerPress(restaurant)
HandleMarkerPress(i) ==
    /\ i \in 1..Len(screen.restaurants)
    /\ screen.selectedRestaurant # <<screen.restaurants[i]>>
    /\ screen' = [screen EXCEPT !.selectedRestaurant = <<screen.restaurants[i]>>]
    /\ UNCHANGED <<store, calls, started, log, input, output, fetched, hook>>

\* handleCloseModal()
HandleCloseModal ==
    /\ screen.selectedRestaurant # << >>
    /\ screen' = [screen EXCEPT !.selectedRestaurant = << >>]
    /\ UNCHANGED <<store, calls, started, log, input, output, fetched, hook>>

\* SuccessModal onClose: setShowSuccessModal(false)
CloseSuccessModal ==
    /\ screen.showSuccessModal
    /\ screen' = [screen EXCEPT !.showSuccessModal = FALSE]
    /\ UNCHANGED <<store, calls, started, log, input, output, fetched, hook>>

\* the call of a handler that starts now is written c: the first of Procs
\* that holds no call in progress
Starts(c) ==
    /\ screen.tasks[c] = IdleTask
    /\ \A d \in Procs : d < c => screen.tasks[d] # IdleTask
    /\ screen.handlers < MaxHandlers

\* a handler awaits getMultipleRestaurantAmenities(placeIds): the select is
\* sent and not answered yet
AwaitsSelect(task, placeIds) ==
    [kind |-> task.kind, pc |-> "select", restaurantId |-> task.restaurantId,
     closure |-> task.closure, results |-> task.results,
     arg |-> placeIds, answer |-> "none", data |-> {}]

\* handleReport(restaurantId, amenities) up to the lookup that
\* submitRestaurantReport sends; the callback keeps the selectedRestaurant
\* of the render it was made in.  No test keeps a second call from starting
\* while a first one awaits.
HandleReport(c, restaurantId, amenities) ==
    /\ Starts(c)
    /\ calls[c].pc \in {"idle", "done"}
    /\ started < MaxCalls
    /\ calls' = [calls EXCEPT ![c] =
                    [pc |-> "select", placeId |-> restaurantId,
                     amenities |-> amenities,
                     sent |-> <<"select">>]]
    /\ started' = started + 1
    /\ screen' = [screen EXCEPT
                    !.handlers = @ + 1,
                    !.tasks[c] = [kind         |-> "handleReport",
                                  pc           |-> "submit",
                                  restaurantId |-> restaurantId,
                                  closure      |-> screen.selectedRestaurant,
                                  results      |-> << >>]]
    /\ UNCHANGED <<store, log, input, output, fetched, hook>>

\* success is false: Alert.alert(...) and return
ReportFailed(c) ==
    /\ screen.tasks[c].kind = "handleReport"
    /\ screen.tasks[c].pc = "submit"
    /\ calls[c].pc = "done"
    /\ ~calls[c].ret
    /\ screen' = [screen EXCEPT !.alerts = @ + 1, !.tasks[c] = IdleTask]
    /\ UNCHANGED <<store, calls, started, log, input, output, fetched, hook>>

ReportAcceptedShowsModal(c) ==
    /\ screen.tasks[c].kind = "handleReport"
    /\ screen.tasks[c].pc = "submit"
    /\ calls[c].pc = "done"
    /\ calls[c].ret
    /\ screen' = [screen EXCEPT
                    !.refreshes = @ + 1,
                    !.showSuccessModal = TRUE,
                    !.tasks[c] = AwaitsSelect(@, <<@.restaurantId>>)]
    /\ UNCHANGED <<store, calls, started, log, input, output, fetched, hook>>

\* success is true: getMultipleRestaurantAmenities([restaurantId]) is called
\* and awaited, its select is sent
ReportAccepted(c) ==
    /\ screen.tasks[c].kind = "handleReport"
    /\ screen.tasks[c].pc = "submit"
    /\ calls[c].pc = "done"
    /\ calls[c].ret
    /\ screen' = [screen EXCEPT
                    !.refreshes = @ + 1,
                    !.tasks[c] = AwaitsSelect(@, <<@.restaurantId>>)]
    /\ UNCHANGED <<store, calls, started, log, input, output, fetched, hook>>

\* the store answers the select of the handler c with rows, from the table
\* as it is at that moment
ScreenSelectOk(c) ==
    /\ screen.tasks[c].pc = "select"
    /\ screen' = [screen EXCEPT
                    !.tasks[c].pc = "answered",
                    !.tasks[c].answer = "data",
                    !.tasks[c].data = SelectIn(store, screen.tasks[c].arg)]
    /\ UNCHANGED <<store, calls, started, log, input, output, fetched, hook>>

\* the store answers the select of the handler c with an error
ScreenSelectError(c) ==
    /\ screen.tasks[c].pc = "select"
    /\ screen' = [screen EXCEPT
                    !.tasks[c].pc = "answered",
                    !.tasks[c].answer = "error"]
    /\ UNCHANGED <<store, calls, started, log, input, output, fetched, hook>>

\* what getMultipleRestaurantAmenities returns to the handler that awaits
\* it: dataMap of the rows answered, new Map() after an error
ReturnedMap(task) ==
    IF task.answer = "data" THEN DataMap(task.data) ELSE DataMap({})

\* the refresh read has returned dataMap: with an entry for restaurantId the
\* restaurant of that id takes its amenities and score, in the list and,
\* when the callback's selectedRestaurant has that id, in the selection;
\* then setShowSuccessModal(true)
Refreshed(c) ==
    /\ screen.tasks[c].kind = "handleReport"
    /\ screen.tasks[c].pc = "answered"
    /\ LET dataMap == ReturnedMap(screen.tasks[c])
           restaurantId == screen.tasks[c].restaurantId
           closure == screen.tasks[c].closure
           With(r) == [id |-> r.id, placeId |-> r.placeId,
                       amenities |-> dataMap[restaurantId].amenities,
                       score |-> <<dataMap[restaurantId].score>>]
       IN  screen' =
              IF restaurantId \in DOMAIN dataMap
              THEN [screen EXCEPT
                       !.restaurants =
                           [i \in 1..Len(@) |->
                               IF @[i].id = restaurantId THEN With(@[i])
                               ELSE @[i]],
                       !.selectedRestaurant =
                           IF /\ closure # << >>
                              /\ closure[1].id = restaurantId
                              /\ @ # << >>
                           THEN <<With(@[1])>>
                           ELSE @,
                       !.showSuccessModal = TRUE,
                       !.tasks[c] = IdleTask]
              ELSE [screen EXCEPT !.showSuccessModal = TRUE,
                                  !.tasks[c] = IdleTask]
    /\ UNCHANGED <<store, calls, started, log, input, output, fetched, hook>>

\* the lists of place ids that the text search answers with: one place,
\* both, none (ZERO_RESULTS, or a failure, which searchRestaurantsByText
\* catches and turns into [])
SearchPlaces == { <<"Y">>, <<"X", "Y">>, << >> }

\* handleSearchInput(text) with text.trim().length < 2:
\* setSearchSuggestions([]) and return
HandleSearchInputShort ==
    /\ screen.searchSuggestions # << >>
    /\ screen' = [screen EXCEPT !.searchSuggestions = << >>]
    /\ UNCHANGED <<store, calls, started, log, input, output, fetched, hook>>

\* handleSearchInput(text) with a longer text, up to its await of
\* searchRestaurantsByText
HandleSearchInput(c) ==
    /\ Starts(c)
    /\ screen' = [screen EXCEPT
                    !.handlers = @ + 1,
                    !.tasks[c] = [kind         |-> "handleSearchInput",
                                  pc           |-> "places",
                                  restaurantId |-> "",
                                  closure      |-> << >>,
                                  results      |-> << >>]]
    /\ UNCHANGED <<store, calls, started, log, input, output, fetched, hook>>

\* searchRestaurantsByText has returned results: placeIds =
\* results.map(r => r.placeId) and getMultipleRestaurantAmenities(placeIds)
\* is called and awaited
SearchAnswered(c, place_ids) ==
    /\ screen.tasks[c].kind = "handleSearchInput"
    /\ screen.tasks[c].pc = "places"
    /\ LET results == PlaceResults(place_ids)
       IN  screen' = [screen EXCEPT
                        !.tasks[c] = AwaitsSelect(
                            [@ EXCEPT !.results = results],
                            [i \in 1..Len(results) |-> results[i].placeId])]
    /\ UNCHANGED <<store, calls, started, log, input, output, fetched, hook>>

\* the read of handleSearchInput has returned dataMap:
\* setSearchSuggestions(resultsWithAmenities.slice(0, 5))
Suggested(c) ==
    /\ screen.tasks[c].kind = "handleSearchInput"
    /\ screen.tasks[c].pc = "answered"
    /\ screen' = [screen EXCEPT
                    !.searchSuggestions =
                        Slice5(Merge(screen.tasks[c].results,
                                     ReturnedMap(screen.tasks[c]))),
                    !.tasks[c] = IdleTask]
    /\ UNCHANGED <<store, calls, started, log, input, output, fetched, hook>>

\* the suggestion numbered i is pressed: handleSelectSuggestion(restaurant)
\* with the restaurant as handleSearchInput left it in searchSuggestions, up
\* to its await of getMultipleRestaurantAmenities([restaurant.placeId])
HandleSelectSuggestion(c, i) ==
    /\ Starts(c)
    /\ i \in 1..Len(screen.searchSuggestions)
    /\ LET restaurant == screen.searchSuggestions[i]
       IN  screen' = [screen EXCEPT
                        !.handlers = @ + 1,
                        !.tasks[c] = AwaitsSelect(
                            [kind         |-> "handleSelectSuggestion",
                             restaurantId |-> restaurant.placeId,
                             closure      |-> << >>,
                             results      |-> <<restaurant>>],
                            <<restaurant.placeId>>)]
    /\ UNCHANGED <<store, calls, started, log, input, output, fetched, hook>>

\* the read of handleSelectSuggestion has returned dataMap:
\* updatedRestaurant = {...restaurant, amenities: data?.amenities ||
\* restaurant.amenities, score: data?.score}; setRestaurants(
\* [updatedRestaurant]) and setSelectedRestaurant(updatedRestaurant)
SuggestionSelected(c) ==
    /\ screen.tasks[c].kind = "handleSelectSuggestion"
    /\ screen.tasks[c].pc = "answered"
    /\ LET dataMap == ReturnedMap(screen.tasks[c])
           restaurant == screen.tasks[c].results[1]
           updatedRestaurant ==
               IF restaurant.placeId \in DOMAIN dataMap
               THEN [id |-> restaurant.id,
                     placeId |-> restaurant.placeId,
                     amenities |-> dataMap[restaurant.placeId].amenities,
                     score |-> <<dataMap[restaurant.placeId].score>>]
               ELSE [id |-> restaurant.id,
                     placeId |-> restaurant.placeId,
                     amenities |-> restaurant.amenities,
                     score |-> << >>]
       IN  screen' = [screen EXCEPT
                        !.restaurants = <<updatedRestaurant>>,
                        !.selectedRestaurant = <<updatedRestaurant>>,
                        !.tasks[c] = IdleTask]
    /\ UNCHANGED <<store, calls, started, log, input, output, fetched, hook>>

\* the lists of place ids that the nearby search answers with: both places,
\* one of them, none (ZERO_RESULTS, or a failure, which
\* searchNearbyRestaurants catches and turns into [])
NearbyPlaces == { <<"X", "Y">>, <<"Y">>, << >> }

\* the clear-search button: setSearchSuggestions([]), then
\* loadNearbyRestaurants(userLocation) up to its await of
\* searchNearbyRestaurants
ClearSearch(c) ==
    /\ Starts(c)
    /\ screen' = [screen EXCEPT
                    !.searchSuggestions = << >>,
                    !.handlers = @ + 1,
                    !.tasks[c] = [kind         |-> "loadNearbyRestaurants",
                                  pc           |-> "places",
                                  restaurantId |-> "",
                                  closure      |-> << >>,
                                  results      |-> << >>]]
    /\ UNCHANGED <<store, calls, started, log, input, output, fetched, hook>>

\* searchNearbyRestaurants has returned results: placeIds =
\* results.map(r => r.placeId) and getMultipleRestaurantAmenities(placeIds)
\* is called and awaited
PlacesAnswered(c, place_ids) ==
    /\ screen.tasks[c].kind = "loadNearbyRestaurants"
    /\ screen.tasks[c].pc = "places"
    /\ LET results == PlaceResults(place_ids)
       IN  screen' = [screen EXCEPT
                        !.tasks[c] = AwaitsSelect(
                            [@ EXCEPT !.results = results],
                            [i \in 1..Len(results) |-> results[i].placeId])]
    /\ UNCHANGED <<store, calls, started, log, input, output, fetched, hook>>

\* the read of loadNearbyRestaurants has returned dataMap:
\* setRestaurants(restaurantsWithAmenities)
NearbyLoaded(c) ==
    /\ screen.tasks[c].kind = "loadNearbyRestaurants"
    /\ screen.tasks[c].pc = "answered"
    /\ screen' = [screen EXCEPT
                    !.restaurants = Merge(screen.tasks[c].results,
                                          ReturnedMap(screen.tasks[c])),
                    !.tasks[c] = IdleTask]
    /\ UNCHANGED <<store, calls, started, log, input, output, fetched, hook>>

-----------------------------------------------------------------------------
(* Specifications.                                                         *)

EmptyStore == [k \in {} |-> Idle]

Init ==
    /\ store = EmptyStore
    /\ calls = [c \in Procs |-> Idle]
    /\ started = 0
    /\ log = [k \in Places |-> << >>]
    /\ input = Report("null", "null", "null", "null")
    /\ output = << >>
    /\ fetched = NotFetched
    /\ hook = HookInit
    /\ screen = ScreenInit

Step(c) ==
    \/ \E placeId \in Places, amenities \in SubmittedReports :
          Submit(c, placeId, amenities)
    \/ LookupFound(c)
    \/ LookupNotFound(c)
    \/ LookupError(c)
    \/ UpdateOk(c)
    \/ UpdateError(c)
    \/ InsertOk(c)
    \/ InsertError(c)

\* any interleaving of the calls of the callers
Next == \E c \in Procs : Step(c)

Spec == Init /\ [][Next]_vars

\* one caller: every call returns before the next one is issued
NextSeq == Step(1)

SpecSeq == Init /\ [][NextSeq]_vars

\* the store answers the request the call of c is waiting on: each await of
\* submitRestaurantReport resumes with data or with an error
Answer(c) ==
    \/ LookupFound(c)
    \/ LookupNotFound(c)
    \/ LookupError(c)
    \/ UpdateOk(c)
    \/ UpdateError(c)
    \/ InsertOk(c)
    \/ InsertError(c)

\* the reports submitted beside a reader: yes, no and unknown answers with
\* base scores that differ
ReadReports ==
    { ReportWithBase("true", "true", "true", "false", 90),
      ReportWithBase("false", "null", "true", "false", 50),
      ReportWithBase("false", "false", "false", "true", 0) }

\* the report submitted through the screen
ScreenReports == { ReportWithBase("true", "true", "true", "false", 90) }

\* the reports submitted where the answers of the store are fair
LiveReports ==
    { ReportWithBase("true", "true", "true", "false", 90),
      Report("null", "null", "null", "null") }

StepLive(c) ==
    \/ \E amenities \in LiveReports : Submit(c, "X", amenities)
    \/ Answer(c)

NextLive == \E c \in Procs : StepLive(c)

\* any interleaving of calls on one key, where the store eventually answers
\* every request that was sent to it
SpecLive ==
    /\ Init
    /\ [][NextLive]_vars
    /\ \A c \in Procs : WF_vars(Answer(c))

\* the hook alone: calls of execute that overlap, reset and unmount
NextApi ==
    \/ Execute
    \/ \E id \in 1..MaxCalls, onSuccessThrows \in BOOLEAN :
          Resolve(id, onSuccessThrows)
    \/ \E id \in 1..MaxCalls : Reject(id)
    \/ Reset
    \/ Unmount

SpecApi == Init /\ [][NextApi]_vars

\* the screen with both places loaded and shown without data, over a table
\* that is empty or holds the row of Y that one accepted report of an
\* earlier session left (its read at load failed): markers are pressed,
\* texts are searched, suggestions are selected, the search is cleared,
\* reports are submitted through handleReport, and the store answers; up to
\* two handlers are in progress at a time
InitScreen ==
    /\ \/ /\ store = EmptyStore
          /\ started = 0
          /\ log = [k \in Places |-> << >>]
       \/ \E amenities \in ScreenReports :
             /\ store = InsertTable(EmptyStore, NewRow("Y", amenities), 1)
             /\ started = 1
             /\ log = [k \in Places |->
                          IF k = "Y" THEN <<amenities>> ELSE << >>]
    /\ calls = [c \in Procs |-> Idle]
    /\ input = Report("null", "null", "null", "null")
    /\ output = << >>
    /\ fetched = NotFetched
    /\ hook = HookInit
    /\ screen = ScreenLoaded

NextScreen ==
    \/ \E i \in 1..Cardinality(Places) : HandleMarkerPress(i)
    \/ HandleCloseModal
    \/ CloseSuccessModal
    \/ \E c \in Procs, restaurantId \in Places, amenities \in ScreenReports :
          HandleReport(c, restaurantId, amenities)
    \/ \E c \in Procs : Answer(c)
    \/ \E c \in Procs : ReportFailed(c)
    \/ \E c \in Procs : ReportAccepted(c)
    \/ \E c \in Procs : ScreenSelectOk(c)
    \/ \E c \in Procs : ScreenSelectError(c)
    \/ \E c \in Procs : Refreshed(c)
    \/ HandleSearchInputShort
    \/ \E c \in Procs : HandleSearchInput(c)
    \/ \E c \in Procs, place_ids \in SearchPlaces : SearchAnswered(c, place_ids)
    \/ \E c \in Procs : Suggested(c)
    \/ \E c \in Procs, i \in 1..Cardinality(Places) :
          HandleSelectSuggestion(c, i)
    \/ \E c \in Procs : SuggestionSelected(c)
    \/ \E c \in Procs : ClearSearch(c)
    \/ \E c \in Procs, place_ids \in NearbyPlaces : PlacesAnswered(c, place_ids)
    \/ \E c \in Procs : NearbyLoaded(c)

SpecScreen == InitScreen /\ [][NextScreen]_vars

\* the lists of keys handed to getMultipleRestaurantAmenities
RECURSIVE ListsOfLen(_)
ListsOfLen(n) ==
    IF n = 0 THEN { << >> }
    ELSE { Append(l, k) : l \in ListsOfLen(n - 1), k \in Places }

IdLists == UNION { ListsOfLen(n) : n \in 0..MaxIds }

\* the steps of a reader: one call at a time, of either function
Read ==
    \/ \E placeId \in Places : GetAmenitiesCall(placeId)
    \/ GetAmenitiesFound
    \/ GetAmenitiesNotFound
    \/ GetAmenitiesError
    \/ GetAmenitiesReturn
    \/ \E placeIds \in IdLists : GetMultipleCall(placeIds)
    \/ GetMultipleOk
    \/ GetMultipleError
    \/ GetMultipleReturn
    \/ Discard

\* the submit steps of the caller that runs beside the reader
StepRead ==
    \/ \E placeId \in Places, amenities \in ReadReports :
          Submit(1, placeId, amenities)
    \/ Answer(1)

\* one caller that submits and a reader, two async functions that share
\* nothing but the store: the steps of one lie anywhere between the steps
\* of the other, also after the store answered the reader and while the
\* reader holds the value returned
NextRead == StepRead \/ Read

SpecRead == Init /\ [][NextRead]_vars

\* the calculator alone, on every report
InitCalc ==
    /\ store = EmptyStore
    /\ calls = [c \in Procs |-> Idle]
    /\ started = 0
    /\ log = [k \in Places |-> << >>]
    /\ input \in AllReports
    /\ output = << >>
    /\ fetched = NotFetched
    /\ hook = HookInit
    /\ screen = ScreenInit

NextCalc == Calculate

SpecCalc == InitCalc /\ [][NextCalc]_vars

-----------------------------------------------------------------------------
(* The majority rule of the two readers applied to one row.                *)

TallyColumns == {"bread", "refill", "attendant", "pay"}

AllTallies == [yes : 0..MaxTally, no : 0..MaxTally, idk : 0..MaxTally]

\* a row with the given tally in one column and no report in the others
RowWithTally(col, tally) ==
    [key        |-> "X",
     created_at |-> 1,
     bread      |-> IF col = "bread" THEN tally ELSE ZeroTally,
     refill     |-> IF col = "refill" THEN tally ELSE ZeroTally,
     attendant  |-> IF col = "attendant" THEN tally ELSE ZeroTally,
     pay        |-> IF col = "pay" THEN tally ELSE ZeroTally,
     score      |-> Rat(DefaultBase, 1)]

\* both readers derive their bundle from the same row
Derive ==
    /\ output = << >>
    /\ LET row == RowWithTally(input.col, input.tally)
       IN  output' = <<AmenitiesOfRow(row), RestaurantDataOfRow(row).amenities>>
    /\ UNCHANGED <<store, calls, started, log, input, fetched, hook, screen>>

InitStatus ==
    /\ store = EmptyStore
    /\ calls = [c \in Procs |-> Idle]
    /\ started = 0
    /\ log = [k \in Places |-> << >>]
    /\ input \in [col : TallyColumns, tally : AllTallies]
    /\ output = << >>
    /\ fetched = NotFetched
    /\ hook = HookInit
    /\ screen = ScreenInit

NextStatus == Derive

SpecStatus == InitStatus /\ [][NextStatus]_vars

-----------------------------------------------------------------------------
(* calculateAverageScore applied to one list of scores.                    *)

ScoreValues == {0, 50, 70, 100}

RECURSIVE SeqsOfLen(_, _)
SeqsOfLen(S, n) ==
    IF n = 0 THEN { << >> }
    ELSE { Append(l, x) : l \in SeqsOfLen(S, n - 1), x \in S }

SeqsUpTo(S, n) == UNION { SeqsOfLen(S, m) : m \in 0..n }

\* weights omitted, or a list of weights of any length up to MaxLen
WeightArgs == { << >> } \cup { <<w>> : w \in SeqsUpTo(0..MaxWeight, MaxLen) }

Average ==
    /\ output = << >>
    /\ output' = <<calculateAverageScore(input.scores, input.weights)>>
    /\ UNCHANGED <<store, calls, started, log, input, fetched, hook, screen>>

InitAvg ==
    /\ store = EmptyStore
    /\ calls = [c \in Procs |-> Idle]
    /\ started = 0
    /\ log = [k \in Places |-> << >>]
    /\ input \in [scores : SeqsUpTo(ScoreValues, MaxLen), weights : WeightArgs]
    /\ output = << >>
    /\ fetched = NotFetched
    /\ hook = HookInit
    /\ screen = ScreenInit

NextAvg == Average

SpecAvg == InitAvg /\ [][NextAvg]_vars

-----------------------------------------------------------------------------
(* The merge of MapScreen applied to one list of place results.            *)

\* rows for the aggregation map handed to the merge: X with one report of
\* score 0, Y with one report of score 10
MergeRows ==
    { InsertTable(EmptyStore,
                  NewRow("X", ReportWithBase("false", "false", "false", "true", 0)),
                  1)["X"],
      InsertTable(EmptyStore,
                  NewRow("Y", ReportWithBase("true", "true", "true", "false", 90)),
                  2)["Y"] }

\* loadNearbyRestaurants and handleSearchInput from the place results on:
\* restaurantsWithAmenities, and the suggestions the search keeps of them
MergeResults ==
    /\ output = << >>
    /\ LET merged == Merge(input.results, input.dataMap)
       IN  output' = <<merged, Slice5(merged)>>
    /\ UNCHANGED <<store, calls, started, log, input, fetched, hook, screen>>

InitMerge ==
    /\ store = EmptyStore
    /\ calls = [c \in Procs |-> Idle]
    /\ started = 0
    /\ log = [k \in Places |-> << >>]
    /\ input \in [results : { PlaceResults(l) :
                                l \in SeqsUpTo(Places, MaxResults) },
                   dataMap : { DataMap(rows) : rows \in SUBSET MergeRows }]
    /\ output = << >>
    /\ fetched = NotFetched
    /\ hook = HookInit
    /\ screen = ScreenInit

NextMerge == MergeResults

SpecMerge == InitMerge /\ [][NextMerge]_vars

-----------------------------------------------------------------------------
(* getScoreColor and getScoreLabel applied to one score.                   *)

\* every score from BaseSpan tenths below 0 to BaseSpan tenths above 10, in
\* steps of 0.05
ScoreArgs ==
    { Rat(n, 2) : n \in (0 - 2 * BaseSpan) .. (2 * (MaxScore + BaseSpan)) }

Classify ==
    /\ output = << >>
    /\ output' = <<getScoreColor(input.score), getScoreLabel(input.score)>>
    /\ UNCHANGED <<store, calls, started, log, input, fetched, hook, screen>>

InitLabel ==
    /\ store = EmptyStore
    /\ calls = [c \in Procs |-> Idle]
    /\ started = 0
    /\ log = [k \in Places |-> << >>]
    /\ input \in [score : ScoreArgs]
    /\ output = << >>
    /\ fetched = NotFetched
    /\ hook = HookInit
    /\ screen = ScreenInit

NextLabel == Classify

SpecLabel == InitLabel /\ [][NextLabel]_vars

-----------------------------------------------------------------------------
(* Vocabulary of the properties.                                           *)

Columns == {"bread", "refill", "attendant", "pay"}

\* the answer of a report that a column counts
AnswerOf(amenities, col) ==
    CASE col = "bread" -> amenities.breadBasket
      [] col = "refill" -> amenities.freeRefills
      [] col = "attendant" -> amenities.attendant
      [] col = "pay" -> amenities.payAtTable

\* the counter of a tally that an answer belongs to
Bucket(answer) ==
    CASE answer = "true" -> "yes"
      [] answer = "false" -> "no"
      [] answer = "null" -> "idk"

Counters == {"yes", "no", "idk"}

\* the four tallies of a row
Tallies(row) == [col \in Columns |-> row[col]]

\* the caller c returns in this step
Returns(c) == InFlight(c) /\ calls'[c].pc = "done"

\* the caller c has returned from a call that took the update path
ReturnedFromUpdate(c) ==
    calls[c].pc = "done" /\ "existing" \in DOMAIN calls[c]

\* the caller c has returned from a call that took the create path
ReturnedFromInsert(c) ==
    /\ calls[c].pc = "done"
    /\ "row" \in DOMAIN calls[c]
    /\ "existing" \notin DOMAIN calls[c]

\* the individual scores of the reports accepted for a key
RECURSIVE Scores(_)
Scores(reports) ==
    IF reports = << >> THEN << >>
    ELSE <<calculateScore(Head(reports))>> \o Scores(Tail(reports))

-----------------------------------------------------------------------------
(* C1: every stored score lies between 0 and 10, whatever the calls and    *)
(* their interleaving.                                                     *)
C1_ScoreInRange ==
    \A k \in DOMAIN store :
        /\ store[k].score.den > 0
        /\ 0 <= store[k].score.num
        /\ store[k].score.num <= 100 * store[k].score.den

\* a row that two accepted reports of score 0 (raw sum -3.7) left at 0
C1_Witness ==
    \E k \in DOMAIN store :
        /\ Len(log[k]) >= 2
        /\ store[k].score.num = 0
        /\ \A i \in 1..Len(log[k]) : RawScore(log[k][i]) < 0

(* C2: after n calls in sequence on one key the stored score is the mean   *)
(* of the n individual scores, which is calculateAverageScore of them.     *)
C2_RunningMean ==
    \A k \in DOMAIN store :
        LET scores == Scores(log[k])
            n == Len(scores)
        IN  /\ n >= 1
            /\ store[k].score.num * n = SumSeq(scores) * store[k].score.den
            /\ store[k].score = calculateAverageScore(scores, << >>)

\* three reports whose mean is not a whole number of tenths
C2_Witness ==
    \E k \in DOMAIN store :
        /\ Len(log[k]) = 3
        /\ store[k].score.den = 3

(* C3: two calls on one key that read the same row and both return true   *)
(* leave tallies that count one report more than the row they read, not    *)
(* two: the stored row is the one the later call wrote.                    *)
C3_LostUpdate ==
    \A c1 \in Procs, c2 \in Procs :
        ( /\ c1 # c2
          /\ ReturnedFromUpdate(c1) /\ calls[c1].ret
          /\ ReturnedFromUpdate(c2) /\ calls[c2].ret
          /\ calls[c1].placeId = calls[c2].placeId
          /\ calls[c1].existing = calls[c2].existing )
        => LET k == calls[c1].placeId
           IN  /\ \A col \in Columns :
                     Total(store[k][col]) = Total(calls[c1].existing[col]) + 1
               /\ \/ Tallies(store[k]) = Tallies(calls[c1].row)
                  \/ Tallies(store[k]) = Tallies(calls[c2].row)

\* both calls returned true from the same row, with different reports
C3_Witness ==
    \E c1 \in Procs, c2 \in Procs :
        /\ c1 # c2
        /\ ReturnedFromUpdate(c1) /\ calls[c1].ret
        /\ ReturnedFromUpdate(c2) /\ calls[c2].ret
        /\ calls[c1].placeId = calls[c2].placeId
        /\ calls[c1].existing = calls[c2].existing
        /\ calls[c1].amenities # calls[c2].amenities
        /\ Len(log[calls[c1].placeId]) = 3
        /\ Total(store[calls[c1].placeId].refill) = 2

\* max(0, min(10, x)), in tenths
Clamp(x) == IF x < 0 THEN 0 ELSE IF x > 100 THEN 100 ELSE x

AllNull(amenities) ==
    /\ amenities.freeRefills = "null"
    /\ amenities.breadBasket = "null"
    /\ amenities.payAtTable = "null"
    /\ amenities.attendant = "null"

(* C4: a report with no answer (four nulls) and baseScore b scores         *)
(* max(0, min(10, b)), for b = 0 as for every other b.                     *)
C4_AllNullIsClampedBase ==
    ( /\ output # << >>
      /\ HasBase(input)
      /\ AllNull(input) )
    => output[1] = Clamp(input.baseScore)

\* the adjustments as the scoring table states them, in tenths
TableAdjustment(amenities) ==
    (CASE amenities.freeRefills = "true" -> 22
       [] amenities.freeRefills = "false" -> -22
       [] amenities.freeRefills = "null" -> 0)
    + (CASE amenities.breadBasket = "true" -> 10
         [] amenities.breadBasket = "false" -> -30
         [] amenities.breadBasket = "null" -> 0)
    + (CASE amenities.payAtTable = "true" -> 15
         [] amenities.payAtTable = "false" -> -5
         [] amenities.payAtTable = "null" -> 0)
    + (CASE amenities.attendant = "true" -> -30
         [] amenities.attendant = "false" -> 0
         [] amenities.attendant = "null" -> 0)

(* C5: with a non-zero baseScore b, or b = 5 when none is given, the score *)
(* is max(0, min(10, b + r + d + p + a)) for the adjustments of the table. *)
C5_ScoreTable ==
    ( /\ output # << >>
      /\ HasBase(input) => input.baseScore # 0 )
    => LET b == IF HasBase(input) THEN input.baseScore ELSE 50
       IN  output[1] = Clamp(b + TableAdjustment(input))

\* baseScore 10 with refills, bread and pay-at-table: raw 14.7, score 10
C5_Witness ==
    /\ output = <<100>>
    /\ HasBase(input)
    /\ input.baseScore = 100
    /\ input.freeRefills = "true"
    /\ input.breadBasket = "true"
    /\ input.payAtTable = "true"
    /\ input.attendant = "false"

\* the report with one answer changed from false to true
Flip(amenities, field) == [amenities EXCEPT ![field] = "true"]

(* C6: changing freeRefills, breadBasket or payAtTable from false to true  *)
(* never lowers the score; changing attendant from false to true never     *)
(* raises it and lowers the sum before the clamp by exactly 3.             *)
C6_Monotone ==
    output # << >> =>
        /\ \A field \in {"freeRefills", "breadBasket", "payAtTable"} :
              input[field] = "false" =>
                 calculateScore(Flip(input, field)) >= output[1]
        /\ input.attendant = "false" =>
              /\ calculateScore(Flip(input, "attendant")) <= output[1]
              /\ RawScore(Flip(input, "attendant")) = RawScore(input) - 30

\* four answers false, where each change moves the clamped score strictly
C6_Witness ==
    /\ output # << >>
    /\ \A field \in {"freeRefills", "breadBasket", "payAtTable"} :
          /\ input[field] = "false"
          /\ calculateScore(Flip(input, field)) > output[1]
    /\ input.attendant = "false"
    /\ calculateScore(Flip(input, "attendant")) < output[1]

\* a tally with 1 in the counter of the answer and 0 in the other two
OneReport(tally, answer) ==
    \A counter \in Counters :
        tally[counter] = IF counter = Bucket(answer) THEN 1 ELSE 0

(* C7: a call that finds no row and whose insert succeeds stores a row     *)
(* with key = placeId, one counter at 1 per tally (that of the report's    *)
(* answer) and score = calculateScore(report).                             *)
C7_CreatePath ==
    [][ \A c \in Procs :
          (calls[c].pc = "insert" /\ Returns(c) /\ calls'[c].ret) =>
             LET k == calls[c].placeId
                 amenities == calls[c].amenities
             IN  /\ k \notin DOMAIN store
                 /\ k \in DOMAIN store'
                 /\ store'[k].key = k
                 /\ \A col \in Columns :
                       OneReport(store'[k][col], AnswerOf(amenities, col))
                 /\ store'[k].score.den = 1
                 /\ store'[k].score.num = calculateScore(amenities)
      ]_vars

\* a created row whose report answered false, null, true and false
C7_Witness ==
    \E c \in Procs :
        /\ ReturnedFromInsert(c) /\ calls[c].ret
        /\ calls[c].amenities.freeRefills = "false"
        /\ calls[c].amenities.breadBasket = "null"
        /\ calls[c].placeId \in DOMAIN store
        /\ store[calls[c].placeId].key = calls[c].row.key
        /\ Tallies(store[calls[c].placeId]) = Tallies(calls[c].row)
        /\ store[calls[c].placeId].score = calls[c].row.score
        /\ Len(log[calls[c].placeId]) = 1

\* one counter of the tally grew by 1, that of the answer; the others kept
OneMoreReport(old, new, answer) ==
    \A counter \in Counters :
        new[counter] = old[counter] + (IF counter = Bucket(answer) THEN 1 ELSE 0)

(* C8: an update that no other call interleaves with adds 1 to exactly one *)
(* counter of each of the four tallies of the row it read, the counter of  *)
(* the report's answer, and keeps the other two.                           *)
C8_UpdatePath ==
    [][ (calls[1].pc = "update" /\ Returns(1) /\ calls'[1].ret) =>
           LET k == calls[1].placeId
               amenities == calls[1].amenities
           IN  /\ store[k] = calls[1].existing
               /\ \A col \in Columns :
                     OneMoreReport(calls[1].existing[col], store'[k][col],
                                   AnswerOf(amenities, col))
      ]_vars

\* an updated row that counts two reports, the second with a null answer
C8_Witness ==
    /\ ReturnedFromUpdate(1) /\ calls[1].ret
    /\ calls[1].amenities.payAtTable = "null"
    /\ calls[1].amenities.attendant = "true"
    /\ \A col \in Columns : Total(store[calls[1].placeId][col]) = 2

\* the caller has returned from the second of two accepted calls on one
\* key that carried the same report; `existing` is the row the first left
SubmittedTwice ==
    /\ ReturnedFromUpdate(1) /\ calls[1].ret
    /\ Len(log[calls[1].placeId]) = 2
    /\ log[calls[1].placeId][1] = log[calls[1].placeId][2]

(* C9, as claimed: the row left by submitting a report twice differs from  *)
(* the row left by submitting it once in its tallies and in its score.     *)
C9_TwiceDiffersInScore ==
    SubmittedTwice =>
        /\ Tallies(store[calls[1].placeId]) # Tallies(calls[1].existing)
        /\ store[calls[1].placeId].score # calls[1].existing.score

(* C9, amended: the row left by submitting a report twice differs from the *)
(* row left by submitting it once in its tallies (every total is 2, not    *)
(* 1); its score is the same, the mean of two equal scores.                *)
C9_TwiceDiffersInTallies ==
    SubmittedTwice =>
        /\ Tallies(store[calls[1].placeId]) # Tallies(calls[1].existing)
        /\ \A col \in Columns :
              /\ Total(calls[1].existing[col]) = 1
              /\ Total(store[calls[1].placeId][col]) = 2
        /\ store[calls[1].placeId].score = calls[1].existing.score

\* the report of score 4.3 submitted twice
C9_Witness ==
    /\ SubmittedTwice
    /\ calculateScore(calls[1].amenities) = 43

(* C10: a call whose lookup or write fails returns false and leaves the    *)
(* store as it was; the store changes only in a step in which a call's     *)
(* write is accepted, and only such a step returns true.                   *)
C10_FailureIsFalse ==
    [][ /\ \A c \in Procs :
              Returns(c) =>
                 /\ calls'[c].ret \in BOOLEAN
                 /\ ~calls'[c].ret => store' = store
                 /\ calls'[c].ret =>
                       /\ calls[c].pc \in {"update", "insert"}
                       /\ calls[c].placeId \in DOMAIN store'
                       /\ Tallies(store'[calls[c].placeId])
                             = Tallies(calls[c].row)
                       /\ store'[calls[c].placeId].score = calls[c].row.score
        /\ store' # store => \E c \in Procs : Returns(c) /\ calls'[c].ret
      ]_vars

\* a refused update: the call returned false, the row is the one it read
C10_Witness ==
    \E c \in Procs :
        /\ ReturnedFromUpdate(c) /\ ~calls[c].ret
        /\ store[calls[c].placeId] = calls[c].existing
        /\ \E d \in Procs :
              /\ calls[d].pc = "done" /\ "row" \notin DOMAIN calls[d]
              /\ ~calls[d].ret

(* C11: a key gets its row only in the step in which an insert for it is  *)
(* accepted; a stored row is never removed, and no step changes its key or *)
(* its created_at.                                                         *)
C11_RecordLifecycle ==
    [][ \A k \in Places :
          /\ k \in DOMAIN store =>
                /\ k \in DOMAIN store'
                /\ store'[k].key = store[k].key
                /\ store'[k].created_at = store[k].created_at
          /\ (k \notin DOMAIN store /\ k \in DOMAIN store') =>
                \E c \in Procs :
                    /\ calls[c].pc = "insert"
                    /\ calls[c].placeId = k
                    /\ Returns(c)
                    /\ calls'[c].ret
      ]_vars

\* a row created by the first call and updated twice since
C11_Witness ==
    \E k \in DOMAIN store :
        /\ store[k].key = k
        /\ store[k].created_at = 1
        /\ Len(log[k]) = 3
        /\ started = 3

\* the status field of a bundle that reports on a column
StatusField(col) ==
    CASE col = "bread" -> "breadBasket"
      [] col = "refill" -> "freeRefills"
      [] col = "attendant" -> "attendant"
      [] col = "pay" -> "payAtTable"

(* C12: in both readers the status derived from a tally is true iff        *)
(* yes > no, false iff no > yes and null iff yes = no, whatever idk is.    *)
C12_MajorityRule ==
    output # << >> =>
        \A i \in 1..2 :
            /\ LET status == output[i][StatusField(input.col)]
                   yes == input.tally.yes
                   no == input.tally.no
               IN  /\ status = "true" <=> yes > no
                   /\ status = "false" <=> no > yes
                   /\ status = "null" <=> yes = no
            /\ \A col \in Columns \ {input.col} :
                   output[i][StatusField(col)] = "null"

\* the tally {yes: 0, no: 0, idk: 5} of the attendant column gives null
C12_Witness ==
    /\ output # << >>
    /\ input.col = "attendant"
    /\ input.tally = [yes |-> 0, no |-> 0, idk |-> 5]
    /\ output[1].attendant = "null"
    /\ output[2].attendant = "null"

\* the statistics field of a bundle that reports on a column
StatsField(col) ==
    CASE col = "bread" -> "breadBasketStats"
      [] col = "refill" -> "freeRefillsStats"
      [] col = "attendant" -> "attendantStats"
      [] col = "pay" -> "payAtTableStats"

\* the store answers the select of the named function in this step
AnswersTo(op) ==
    /\ fetched.pc = "select"
    /\ fetched.op = op
    /\ fetched'.pc = "answered"

\* the named function resumes with the answer and returns in this step
ReturnsFrom(op) ==
    /\ fetched.pc = "answered"
    /\ fetched.op = op
    /\ fetched'.pc = "done"

\* yes = tally.yes, no = tally.no, total = yes + no + idk, for each column
StatsOfRow(amenities, row) ==
    \A col \in Columns :
        /\ amenities[StatsField(col)].yes = row[col].yes
        /\ amenities[StatsField(col)].no = row[col].no
        /\ amenities[StatsField(col)].total
              = row[col].yes + row[col].no + row[col].idk

(* C13: getAmenities returns null for a key that had no row when the store *)
(* answered; for a key that had a row then, when the lookup succeeds, it   *)
(* returns a bundle whose statistics are yes, no and total = yes + no +    *)
(* idk of the tallies of that row.                                         *)
C13_GetAmenities ==
    [][ /\ ( /\ AnswersTo("getRestaurantAmenities")
             /\ fetched'.answer # "error" ) =>
              LET k == fetched.arg
              IN  /\ k \notin DOMAIN store => fetched'.data = << >>
                  /\ k \in DOMAIN store => fetched'.data = <<store[k]>>
        /\ ( /\ ReturnsFrom("getRestaurantAmenities")
             /\ fetched.answer # "error" ) =>
              /\ fetched.data = << >> => fetched'.ret = << >>
              /\ fetched.data # << >> =>
                    /\ fetched'.ret # << >>
                    /\ StatsOfRow(fetched'.ret[1], fetched.data[1])
      ]_vars

\* a bundle returned for a row with bread {yes: 1, no: 0, idk: 1}, held
\* while a later report has been added to the row
C13_Witness ==
    /\ fetched.pc = "done"
    /\ fetched.op = "getRestaurantAmenities"
    /\ fetched.ret # << >>
    /\ fetched.ret[1].breadBasketStats = [yes |-> 1, no |-> 0, total |-> 2]
    /\ fetched.data[1].bread = [yes |-> 1, no |-> 0, idk |-> 1]
    /\ Total(store[fetched.arg].bread) = 3

\* the majority status of a tally
StatusOf(tally) ==
    IF tally.yes > tally.no THEN "true"
    ELSE IF tally.no > tally.yes THEN "false"
    ELSE "null"

(* C14: for any list of keys, in any order and with repetitions, a         *)
(* successful getMultipleAmenities is answered with the rows of the listed *)
(* keys that have one, and returns a map whose keys are the keys of those  *)
(* rows, each with the score, statuses and statistics of its own row.      *)
C14_GetMultiple ==
    [][ /\ ( /\ AnswersTo("getMultipleRestaurantAmenities")
             /\ fetched'.answer = "data" ) =>
              LET ids == fetched.arg
              IN  fetched'.data =
                     { store[k] : k \in { ids[i] : i \in 1..Len(ids) }
                                           \cap DOMAIN store }
        /\ ( /\ ReturnsFrom("getMultipleRestaurantAmenities")
             /\ fetched.answer = "data" ) =>
              LET map == fetched'.ret
              IN  /\ DOMAIN map = { r.key : r \in fetched.data }
                  /\ \A r \in fetched.data :
                        /\ map[r.key].score = r.score
                        /\ StatsOfRow(map[r.key].amenities, r)
                        /\ \A col \in Columns :
                              map[r.key].amenities[StatusField(col)]
                                 = StatusOf(r[col])
      ]_vars

\* the same key listed twice, while another key has a row as well
C14_Witness ==
    /\ fetched.pc = "done"
    /\ fetched.op = "getMultipleRestaurantAmenities"
    /\ fetched.answer = "data"
    /\ fetched.arg = <<"X", "X">>
    /\ DOMAIN fetched.ret = {"X"}
    /\ DOMAIN store = {"X", "Y"}
    /\ fetched.ret["X"].amenities.freeRefillsStats.total = 2

(* C15: when the store fails during a read, getAmenities returns null and  *)
(* getMultipleAmenities returns an empty map.                              *)
C15_ReadFailure ==
    (fetched.pc = "done" /\ fetched.answer = "error") =>
        /\ fetched.op = "getRestaurantAmenities" => fetched.ret = << >>
        /\ fetched.op = "getMultipleRestaurantAmenities" =>
              DOMAIN fetched.ret = {}

\* a failed batch read of a key that has a row
C15_Witness ==
    /\ fetched.pc = "done"
    /\ fetched.op = "getMultipleRestaurantAmenities"
    /\ fetched.answer = "error"
    /\ \E i \in 1..Len(fetched.arg) : fetched.arg[i] \in DOMAIN store
    /\ DOMAIN fetched.ret = {}

\* the smallest and the largest element of a non-empty list
Smallest(s) == CHOOSE x \in { s[i] : i \in 1..Len(s) } :
                  \A j \in 1..Len(s) : x <= s[j]

Largest(s) == CHOOSE x \in { s[i] : i \in 1..Len(s) } :
                 \A j \in 1..Len(s) : x >= s[j]

(* C16: calculateAverageScore returns 0 for no scores; with as many        *)
(* non-negative weights as scores it returns sum(score * weight) /         *)
(* sum(weight), a value between the smallest and the largest score; with   *)
(* weights omitted or of another length it returns the plain mean.         *)
C16_AverageScore ==
    output # << >> =>
        LET scores == input.scores
            weighted == /\ input.weights # << >>
                        /\ Len(input.weights[1]) = Len(scores)
            avg == output[1]
        IN  /\ Len(scores) = 0 => avg = [num |-> 0, den |-> 1]
            /\ (Len(scores) > 0 /\ weighted) =>
                  /\ avg.den > 0
                  /\ avg.num * SumSeq(input.weights[1])
                        = SumProd(scores, input.weights[1]) * avg.den
                  /\ Smallest(scores) * avg.den <= avg.num
                  /\ avg.num <= Largest(scores) * avg.den
            /\ (Len(scores) > 0 /\ ~weighted) =>
                  /\ avg.den > 0
                  /\ avg.num * Len(scores) = SumSeq(scores) * avg.den

\* the two reports of the scenario for key X
Report1 == ReportWithBase("true", "true", "true", "false", 90)

Report2 == ReportWithBase("false", "null", "true", "false", 50)

(* C17: for key X without a row, report1 creates refill {1,0,0}, bread     *)
(* {1,0,0}, pay {1,0,0}, attendant {0,1,0} with score 10; report2 then     *)
(* gives refill {1,1,0}, bread {1,0,1}, pay {2,0,0}, attendant {0,2,0}     *)
(* with score (10 * 1 + 4.3) / 2 = 7.15.                                   *)
C17_Scenario ==
    /\ log["X"] = <<Report1>> =>
          /\ store["X"].refill = [yes |-> 1, no |-> 0, idk |-> 0]
          /\ store["X"].bread = [yes |-> 1, no |-> 0, idk |-> 0]
          /\ store["X"].pay = [yes |-> 1, no |-> 0, idk |-> 0]
          /\ store["X"].attendant = [yes |-> 0, no |-> 1, idk |-> 0]
          /\ store["X"].score = [num |-> 100, den |-> 1]
    /\ log["X"] = <<Report1, Report2>> =>
          /\ store["X"].refill = [yes |-> 1, no |-> 1, idk |-> 0]
          /\ store["X"].bread = [yes |-> 1, no |-> 0, idk |-> 1]
          /\ store["X"].pay = [yes |-> 2, no |-> 0, idk |-> 0]
          /\ store["X"].attendant = [yes |-> 0, no |-> 2, idk |-> 0]
          /\ store["X"].score.num * 100 = 715 * 10 * store["X"].score.den

\* both reports of the scenario have been accepted, in this order
C17_Witness ==
    /\ log["X"] = <<Report1, Report2>>
    /\ calls[1].pc = "done"
    /\ calls[1].amenities = Report2
    /\ calls[1].ret

(* C18: under any interleaving the four tallies of a stored row have the   *)
(* same total yes + no + idk.                                              *)
C18_Lockstep ==
    \A k \in DOMAIN store :
        \A col \in Columns :
            store[k][col].yes + store[k][col].no + store[k][col].idk
               = store[k].refill.yes + store[k].refill.no + store[k].refill.idk

\* a row that lost one of three accepted reports: every total is 2
C18_Witness ==
    \E k \in DOMAIN store :
        /\ Len(log[k]) = 3
        /\ \A col \in Columns : Total(store[k][col]) = 2
        /\ store[k].pay.idk = 1
        /\ store[k].attendant.idk = 0

\* how often a request occurs among those a call has sent
Count(sent, request) == Cardinality({ i \in 1..Len(sent) : sent[i] = request })

(* C19: a call sends exactly one lookup and at most one write, an insert   *)
(* or an update; it sends no write after a failed lookup and repeats no    *)
(* request.                                                                *)
C19_OneAttempt ==
    \A c \in Procs :
        calls[c].pc # "idle" =>
            /\ Count(calls[c].sent, "select") = 1
            /\ Count(calls[c].sent, "insert") + Count(calls[c].sent, "update") <= 1
            /\ Len(calls[c].sent) <= 2
            /\ (calls[c].pc # "select" /\ calls[c].fetchError = "other") =>
                  /\ calls[c].sent = <<"select">>
                  /\ calls[c].pc = "done"
                  /\ ~calls[c].ret
            /\ calls[c].pc \in {"update", "insert"} =>
                  calls[c].sent = <<"select", calls[c].pc>>

\* one call returned false after a failed lookup, another after a refused
\* insert
C19_Witness ==
    \E c \in Procs, d \in Procs :
        /\ calls[c].pc = "done" /\ calls[c].fetchError = "other"
        /\ calls[c].sent = <<"select">>
        /\ calls[d].pc = "done" /\ ~calls[d].ret
        /\ calls[d].sent = <<"select", "insert">>

(* C20: for every score, inside [0,10] or not, the label is Excellent from *)
(* 9, Very Good from 7, Good from 5, Fair from 3 and Poor below 3; the     *)
(* color is green from 8, amber from 6, orange from 4 and red below 4.     *)
C20_Bands ==
    output # << >> =>
        LET n == input.score.num
            d == input.score.den
            color == output[1]
            label == output[2]
        IN  /\ label = "Excellent" <=> n >= 90 * d
            /\ label = "Very Good" <=> (70 * d <= n /\ n < 90 * d)
            /\ label = "Good" <=> (50 * d <= n /\ n < 70 * d)
            /\ label = "Fair" <=> (30 * d <= n /\ n < 50 * d)
            /\ label = "Poor" <=> n < 30 * d
            /\ color = "#10B981" <=> n >= 80 * d
            /\ color = "#F59E0B" <=> (60 * d <= n /\ n < 80 * d)
            /\ color = "#F97316" <=> (40 * d <= n /\ n < 60 * d)
            /\ color = "#EF4444" <=> n < 40 * d

\* the score 9.0 is Excellent and green
C20_Witness ==
    /\ input.score = [num |-> 90, den |-> 1]
    /\ output = <<"#10B981", "Excellent">>

(* C21: every step of a call of getAmenities or getMultipleAmenities, with *)
(* any argument and whether the store answers with rows, with no row or    *)
(* with an error, leaves every row of the store as it was.                 *)
C21_ReadsKeepStore ==
    [][ fetched' # fetched => store' = store ]_vars

\* a read of a key without a row has returned null, while the other key
\* has a row that counts two reports
C21_Witness ==
    /\ fetched.pc = "done"
    /\ fetched.op = "getRestaurantAmenities"
    /\ fetched.answer = "PGRST116"
    /\ fetched.ret = << >>
    /\ fetched.arg \notin DOMAIN store
    /\ \E k \in DOMAIN store : Total(store[k].refill) = 2

(* C22: every issued call of submitReport eventually returns true or       *)
(* false when the store eventually answers each request; the answer a call *)
(* waits on can arrive whatever the other calls are doing.                 *)
C22_EventuallyReturns ==
    /\ \A c \in Procs :
          InFlight(c) ~> (calls[c].pc = "done" /\ calls[c].ret \in BOOLEAN)
    /\ \A c \in Procs : [](InFlight(c) => ENABLED <<Answer(c)>>_vars)

\* one call has returned false from a refused insert while the call that
\* created the row has not yet returned from its next call
C22_Witness ==
    \E c \in Procs, d \in Procs :
        /\ ReturnedFromInsert(c) /\ ~calls[c].ret
        /\ calls[d].pc = "update"
        /\ Len(log["X"]) = 1

\* the call id of execute stops awaiting apiFunction in this step
Settles(id) == id \in hook.pending /\ id \notin hook'.pending

\* the hook's state is the success or the error of the call id
StateOf(id) ==
    \/ hook.state = AsyncState("success", <<id>>, << >>)
    \/ hook.state = AsyncState("error", << >>, <<id>>)

\* execute has been called and no call awaits apiFunction
AllSettled == hook.executionId > 0 /\ hook.pending = {}

\* a call that settles when a newer call exists, or after unmount, changes
\* neither the state nor the list of callbacks made
StaleCallsAreDropped ==
    \A id \in 1..MaxCalls :
        (Settles(id) /\ (id # hook.executionId \/ ~hook.mounted)) =>
            /\ hook'.state = hook.state
            /\ hook'.callbacks = hook.callbacks

(* C23, as claimed: a call of execute that settles after a newer call was  *)
(* started, or after unmount, changes neither the state nor triggers a     *)
(* callback; and once all calls have settled the state is the success or   *)
(* the error of the most recently started call.                            *)
C23_LatestCallWins ==
    /\ [][StaleCallsAreDropped]_vars
    /\ [](AllSettled => StateOf(hook.executionId))

(* C23, amended: a call of execute that settles after a newer call was     *)
(* started, or after unmount, changes neither the state nor triggers a     *)
(* callback; the most recently started call, when it settles while the     *)
(* hook is mounted, makes the state its success or its error; and once all *)
(* calls have settled, while the hook is mounted and unless reset has made *)
(* the state idle, the state is the success or the error of the most       *)
(* recently started call.                                                  *)
C23_LatestCallWinsWhileMounted ==
    /\ [][ /\ StaleCallsAreDropped
           /\ (Settles(hook.executionId) /\ hook.mounted) =>
                  \/ hook'.state
                        = AsyncState("success", <<hook.executionId>>, << >>)
                  \/ hook'.state
                        = AsyncState("error", << >>, <<hook.executionId>>)
         ]_vars
    /\ []( /\ hook.state.status \in {"success", "error"} =>
                  StateOf(hook.executionId)
           /\ (AllSettled /\ hook.mounted /\ hook.state.status # "idle") =>
                  StateOf(hook.executionId)
           /\ \A i \in 1..Len(hook.callbacks) :
                  hook.callbacks[i][2] \notin hook.pending )

\* three overlapping calls have settled: the state is the success of the
\* third and only the third has triggered a callback
C23_Witness ==
    /\ hook.executionId = 3
    /\ hook.pending = {}
    /\ hook.mounted
    /\ hook.state = AsyncState("success", <<3>>, << >>)
    /\ hook.callbacks = << <<"onSuccess", 3>> >>

\* the handleReport written c resumes after submitRestaurantReport
\* returned false
ResumesAfterFalse(c) ==
    /\ screen.tasks[c].kind = "handleReport"
    /\ screen.tasks[c].pc = "submit"
    /\ calls[c].pc = "done"
    /\ ~calls[c].ret
    /\ screen'.tasks[c] # screen.tasks[c]

\* the handleReport written c resumes after its refresh read returned
ResumesAfterRefresh(c) ==
    /\ screen.tasks[c].kind = "handleReport"
    /\ screen.tasks[c].pc = "answered"
    /\ screen'.tasks[c] # screen.tasks[c]

(* C24: when submitReport returns false, handleReport shows the alert,     *)
(* issues no refresh read, leaves the restaurants displayed as they are,   *)
(* does not show the success modal and ends; the success modal is set only *)
(* by a handleReport whose submitReport returned true and whose refresh    *)
(* read has returned, and it is set then also when the refresh returned no *)
(* data for the restaurant.  This holds of each call of handleReport,      *)
(* whatever the other handlers in progress are doing.                      *)
C24_HandleReport ==
    [][ /\ \A c \in Procs :
              ResumesAfterFalse(c) =>
                 /\ screen'.alerts = screen.alerts + 1
                 /\ screen'.refreshes = screen.refreshes
                 /\ screen'.restaurants = screen.restaurants
                 /\ screen'.selectedRestaurant = screen.selectedRestaurant
                 /\ screen'.showSuccessModal = screen.showSuccessModal
                 /\ screen'.tasks[c] = IdleTask
        /\ (screen'.showSuccessModal /\ ~screen.showSuccessModal) =>
              \E c \in Procs :
                 /\ ResumesAfterRefresh(c)
                 /\ calls[c].pc = "done" /\ calls[c].ret
        /\ \A c \in Procs :
              ResumesAfterRefresh(c) =>
                 /\ screen'.tasks[c] = IdleTask
                 /\ screen'.showSuccessModal
                 /\ screen'.alerts = screen.alerts
                 /\ screen.tasks[c].restaurantId
                       \notin DOMAIN ReturnedMap(screen.tasks[c]) =>
                       /\ screen'.restaurants = screen.restaurants
                       /\ screen'.selectedRestaurant = screen.selectedRestaurant
        /\ screen'.refreshes # screen.refreshes =>
              \E c \in Procs :
                 /\ screen.tasks[c].kind = "handleReport"
                 /\ screen.tasks[c].pc = "submit"
                 /\ calls[c].pc = "done" /\ calls[c].ret
        /\ screen'.alerts # screen.alerts =>
              \E c \in Procs : ResumesAfterFalse(c)
      ]_vars

\* one report failed and raised an alert; another one, in progress at the
\* same time, was accepted, its refresh failed, and the success modal is
\* shown over unchanged restaurants
C24_Witness ==
    /\ \A c \in Procs : screen.tasks[c] = IdleTask
    /\ calls[1].pc = "done" /\ ~calls[1].ret
    /\ calls[2].pc = "done" /\ calls[2].ret
    /\ screen.alerts = 1
    /\ screen.refreshes = 1
    /\ screen.showSuccessModal
    /\ screen.restaurants = ScreenLoaded.restaurants
    /\ \E k \in Places : Len(log[k]) = 1

(* C25: the merge of place results with the aggregation map keeps the      *)
(* length and the order of the place results; a restaurant whose placeId   *)
(* has an entry takes the entry's amenities and score, a restaurant        *)
(* without an entry keeps four null statuses and has no score.  (The       *)
(* suggestions of a search are the first five of the merged list.)         *)
C25_Merge ==
    output # << >> =>
        LET results == input.results
            dataMap == input.dataMap
            merged == output[1]
        IN  /\ Len(merged) = Len(results)
            /\ \A i \in 1..Len(results) :
                  /\ merged[i].id = results[i].id
                  /\ merged[i].placeId = results[i].placeId
                  /\ results[i].placeId \in DOMAIN dataMap =>
                        /\ merged[i].amenities
                              = dataMap[results[i].placeId].amenities
                        /\ merged[i].score
                              = <<dataMap[results[i].placeId].score>>
                  /\ results[i].placeId \notin DOMAIN dataMap =>
                        /\ merged[i].amenities
                              = [freeRefills |-> "null", breadBasket |-> "null",
                                 payAtTable |-> "null", attendant |-> "null"]
                        /\ merged[i].score = << >>
            /\ Len(output[2]) = IF Len(merged) < 5 THEN Len(merged) ELSE 5
            /\ \A i \in 1..Len(output[2]) : output[2][i] = merged[i]

\* six results X, Y, X, Y, Y, X merged with a map that knows Y only
C25_Witness ==
    /\ output # << >>
    /\ Len(input.results) = 6
    /\ DOMAIN input.dataMap = {"Y"}
    /\ Len(output[1]) = 6
    /\ Len(output[2]) = 5
    /\ output[1][1].placeId = "X" /\ output[1][1].score = << >>
    /\ output[1][2].placeId = "Y" /\ output[1][2].score = << [num |-> 100, den |-> 1] >>
    /\ output[1][2].amenities.freeRefills = "true"
    /\ output[1][6].placeId = "X"

\* the write of the caller c is accepted in this step
WriteAccepted(c) == Returns(c) /\ calls'[c].ret

(* C26, as claimed: under any interleaving of calls, no counter of a       *)
(* stored row decreases from one state of the store to the next.           *)
C26_NeverDecreases ==
    [][ \A k \in DOMAIN store :
          \A col \in Columns :
             \A counter \in Counters :
                store'[k][col][counter] >= store[k][col][counter]
      ]_vars

(* C26, amended: the store changes only when a write is accepted; an       *)
(* accepted update sets every counter to the value the call read plus the  *)
(* call's own increment, so a counter is never below the value the writing *)
(* call read, and never decreases when the row is still as the call read   *)
(* it.  (When another write was accepted in between, the counters that     *)
(* write raised fall back.)                                                *)
C26_NeverBelowRowRead ==
    [][ /\ \A c \in Procs :
              (WriteAccepted(c) /\ calls[c].pc = "update") =>
                 LET k == calls[c].placeId
                     existing == calls[c].existing
                 IN  \A col \in Columns :
                        /\ OneMoreReport(existing[col], store'[k][col],
                                         AnswerOf(calls[c].amenities, col))
                        /\ \A counter \in Counters :
                              /\ store'[k][col][counter]
                                    >= existing[col][counter]
                              /\ Tallies(store[k]) = Tallies(existing) =>
                                    store'[k][col][counter]
                                       >= store[k][col][counter]
        /\ (\A c \in Procs : ~WriteAccepted(c)) => store' = store
      ]_vars

\* two updates computed from the same row were accepted; the row stored is
\* the one of c, with a counter below that of the row d had written
C26_Witness ==
    \E c \in Procs, d \in Procs :
        /\ c # d
        /\ ReturnedFromUpdate(c) /\ calls[c].ret
        /\ ReturnedFromUpdate(d) /\ calls[d].ret
        /\ calls[c].placeId = calls[d].placeId
        /\ calls[c].existing = calls[d].existing
        /\ Len(log[calls[c].placeId]) = 3
        /\ Tallies(store[calls[c].placeId]) = Tallies(calls[c].row)
        /\ \E col \in Columns, counter \in Counters :
              calls[d].row[col][counter]
                 > store[calls[c].placeId][col][counter]

(* C27: every stored row has a refill total yes + no + idk of at least 1,  *)
(* so every call on the update path finds oldReportCount > 0 and computes  *)
(* the weighted average, never the fallback newScore = userScore.          *)
C27_RefillTotalPositive ==
    /\ \A k \in DOMAIN store : Total(store[k].refill) >= 1
    /\ \A c \in Procs :
          "existing" \in DOMAIN calls[c] =>
              LET oldReportCount == Total(calls[c].existing.refill)
                  oldScore == calls[c].existing.score
                  userScore == calculateScore(calls[c].amenities)
              IN  /\ oldReportCount > 0
                  /\ calls[c].row.score
                        = RatMin(Rat(MaxScore, 1),
                                 Rat(oldScore.num * oldReportCount
                                        + userScore * oldScore.den,
                                     oldScore.den * (oldReportCount + 1)))

\* a row created by a report that answered null for refills (idk = 1), read
\* by a call on the update path whose score differs from the row's
C27_Witness ==
    \E c \in Procs :
        /\ "existing" \in DOMAIN calls[c]
        /\ calls[c].existing.refill = [yes |-> 0, no |-> 0, idk |-> 1]
        /\ calls[c].row.score # Rat(calculateScore(calls[c].amenities), 1)
        /\ calls[c].row.score # calls[c].existing.score

\* two bundles agree on the four statuses and the four statistics
SameStatusesAndStats(a, b) ==
    \A col \in Columns :
        /\ a[StatusField(col)] = b[StatusField(col)]
        /\ a[StatsField(col)] = b[StatsField(col)]

(* C28: for every stored row the store answers with, the statuses and the  *)
(* {yes, no, total} statistics that getAmenities(placeId) returns are      *)
(* those of the entry that getMultipleAmenities([placeId]) returns when it *)
(* is answered with the same row.                                          *)
C28_SingleEqualsBatch ==
    [][ /\ ( /\ ReturnsFrom("getRestaurantAmenities")
             /\ fetched.answer = "data" ) =>
              LET row == fetched.data[1]
                  batch == DataMap({row})
              IN  /\ row.key = fetched.arg
                  /\ DOMAIN batch = {row.key}
                  /\ SameStatusesAndStats(fetched'.ret[1],
                                          batch[row.key].amenities)
        /\ ( /\ ReturnsFrom("getMultipleRestaurantAmenities")
             /\ fetched.answer = "data"
             /\ Len(fetched.arg) = 1
             /\ fetched.data # {} ) =>
              LET k == fetched.arg[1]
              IN  /\ DOMAIN fetched'.ret = {k}
                  /\ \A row \in fetched.data :
                        /\ row.key = k
                        /\ SameStatusesAndStats(fetched'.ret[k].amenities,
                                                AmenitiesOfRow(row))
      ]_vars

\* the batch read of the one key X, whose row has a tie in one column and
\* a majority in another
C28_Witness ==
    /\ fetched.pc = "done"
    /\ fetched.op = "getMultipleRestaurantAmenities"
    /\ fetched.answer = "data"
    /\ fetched.arg = <<"X">>
    /\ DOMAIN fetched.ret = {"X"}
    /\ fetched.ret["X"].amenities.freeRefills = "null"
    /\ fetched.ret["X"].amenities.freeRefillsStats
          = [yes |-> 1, no |-> 1, total |-> 2]
    /\ fetched.ret["X"].amenities.payAtTable = "true"

\* the callers c and d have both returned from a call for the same key
\* whose lookup found no row
BothFoundNoRow(c, d) ==
    /\ c # d
    /\ ReturnedFromInsert(c)
    /\ ReturnedFromInsert(d)
    /\ calls[c].placeId = calls[d].placeId

(* C29: when two calls for a key without a row both find no row before     *)
(* either writes, the primary key lets one insert succeed: the insert of a *)
(* call that waits while the row is created is refused and that call       *)
(* returns false, at most one of the two returns true, and the row stored  *)
(* is the one report of the call that returned true (every total is 1).    *)
C29_OneInsertWins ==
    /\ [][ \A d \in Procs :
              ( /\ calls[d].pc = "insert"
                /\ calls[d].placeId \in DOMAIN store
                /\ Returns(d) ) =>
                  /\ ~calls'[d].ret
                  /\ store' = store
         ]_vars
    /\ []( \A c \in Procs, d \in Procs :
              BothFoundNoRow(c, d) =>
                 /\ ~(calls[c].ret /\ calls[d].ret)
                 /\ calls[c].ret =>
                       LET k == calls[c].placeId
                       IN  /\ k \in DOMAIN store
                           /\ Tallies(store[k]) = Tallies(calls[c].row)
                           /\ store[k].score = calls[c].row.score
                           /\ \A col \in Columns : Total(store[k][col]) = 1
                           /\ log[k] = <<calls[c].amenities>> )

\* both calls found no row for X; the one with the report answering true
\* for refills created the row, the other returned false
C29_Witness ==
    \E c \in Procs, d \in Procs :
        /\ BothFoundNoRow(c, d)
        /\ calls[c].ret /\ ~calls[d].ret
        /\ calls[c].fetchError = "PGRST116"
        /\ calls[d].fetchError = "PGRST116"
        /\ calls[c].amenities.freeRefills = "true"
        /\ calls[d].amenities.freeRefills = "false"
        /\ store[calls[c].placeId].refill = [yes |-> 1, no |-> 0, idk |-> 0]
        /\ started = 2

\* every call so far was issued by caller 1, each after the one before it
\* had returned: no two calls have overlapped
NoOverlap == calls[2] = Idle

(* C30: under any interleaving, the refill total of a stored row never     *)
(* exceeds the number of calls for its key whose write was accepted so     *)
(* far; it equals that number when no two calls have overlapped.           *)
C30_TotalAtMostWrites ==
    \A k \in DOMAIN store :
        /\ Total(store[k].refill) <= Len(log[k])
        /\ NoOverlap => Total(store[k].refill) = Len(log[k])

\* three writes were accepted for a key, two of them computed from the
\* same row: the refill total is 2
C30_Witness ==
    \E k \in DOMAIN store :
        /\ Len(log[k]) = 3
        /\ Total(store[k].refill) = 2
        /\ \A c \in Procs : calls[c].pc = "done" /\ calls[c].ret
        /\ calls[1].existing = calls[2].existing

====
